---- MODULE Spec2Model ----
(***************************************************************************)
(* Event classification and list export of the GPS Admin scheduling tool.  *)
(*                                                                         *)
(* Strings are modelled as sequences of tokens: a token is a maximal run   *)
(* of word characters or a single punctuation mark, and the tokens of a    *)
(* title are separated by blanks.  Token spelling is case-normalised, so   *)
(* the /i flag of the patterns is implicit, and String.prototype.trim is   *)
(* the identity on token sequences.                                        *)
(***************************************************************************)
EXTENDS Integers, Sequences, FiniteSets, TLC

VARIABLES
    input,       \* classifier: the argument handed to isWorkEvent
    result,      \* classifier: outcome of the last isWorkEvent call
    prev,        \* classifier: title, note and outcome before annotation
    cpc,         \* classifier: position of the classification session
    events,      \* exporter: the caller's event array
    xpc,         \* exporter: position of the export call sequence
    sortLevels,  \* sorter: the sort specification handed in
    sorted,      \* sorter: array returned by sortEventsMultiLevel
    resorted,    \* sorter: array returned by sorting `sorted` again
    groupLevels, \* grouping: the group levels handed in
    grouped,     \* grouping: tree returned by buildNestedGroups
    count,       \* grouping: number returned by countEvents
    options,     \* report: the export options
    text,        \* report: value returned by generateTextList
    csv,         \* report: value returned by generateCSV
    value,       \* CSV field: the value handed to escapeCSV
    escaped,     \* CSV field: the string escapeCSV returned
    workOnlyMode, \* analytics: the work-only toggle
    analysed,    \* analytics: the view renderAnalytics shows and its events
    groupKeys,   \* group keys: the keys handed to sortGroupKeys
    keySort,     \* group keys: group type, sortBy and sortOrder handed in
    keysOut,     \* group keys: the array sortGroupKeys returned
    templates,   \* templates: TemplatesManager.templates
    tplNextId,   \* templates: number of ids generateId has handed out
    tplOutcome,  \* templates: how the last TemplatesManager call ended
    groupDivs,   \* export dialog: the .group-level children of the container
    addDisabled, \* export dialog: disabled state of the add-level button
    dlgOutcome,  \* export dialog: how the last click handler ended
    isAuthenticated, \* session: state.isAuthenticated
    useMockData, \* session: state.useMockData
    apiSetup,    \* session: client id configured, saved token present
    cacheFresh,  \* session: the events cache is valid and not empty
    appEvents,   \* session: where state.events came from
    eventsCache, \* session: where the cached events came from
    fetches,     \* session: loadCalendarEvents calls awaiting the calendar
    autoPc,      \* session: position of attemptAutoAuthentication
    failedStep,  \* session: the step of attemptAutoAuthentication that failed
    logoutPc,    \* session: position of handleLogout
    multiEventCurrentStep, \* wizard: step of the multi-event wizard
    pendingMultiEvents, \* wizard: the previewed events, or null
    storedEvents, \* wizard: state.events, the events the wizard pushed
    nextEventId, \* wizard: number of event ids handed out
    previewListeners, \* wizard: click listeners on #multi-event-preview
    removedByClick, \* wizard: events the last delete click removed
    creators,    \* wizard: position of each createMultiEvents invocation
    requested,   \* preview: number of generateExportPreview runs started
    exportRuns,  \* preview: runs awaiting fetchAllCalendarEvents
    exportPreview \* preview: the run whose preview is stored and displayed

classifierVars == <<input, result, prev, cpc>>
sorterVars == <<sortLevels, sorted, resorted>>
grouperVars == <<groupLevels, grouped, count>>
reportVars == <<options, text, csv>>
csvVars == <<value, escaped>>
analyticsVars == <<workOnlyMode, analysed>>
keyVars == <<groupKeys, keySort, keysOut>>
exporterVars ==
    <<events, xpc, sorterVars, grouperVars, reportVars, csvVars, analyticsVars,
      keyVars>>

templateVars == <<templates, tplNextId, tplOutcome>>
dialogVars == <<groupDivs, addDisabled, dlgOutcome>>
sessionVars ==
    <<isAuthenticated, useMockData, apiSetup, cacheFresh, appEvents, eventsCache,
      fetches, autoPc, failedStep, logoutPc>>
wizardVars ==
    <<multiEventCurrentStep, pendingMultiEvents, storedEvents, nextEventId,
      previewListeners, removedByClick, creators>>
previewVars == <<requested, exportRuns, exportPreview>>
appVars == <<templateVars, dialogVars, sessionVars, wizardVars, previewVars>>

coreVars == <<classifierVars, exporterVars>>
besidesTemplates == <<coreVars, dialogVars, sessionVars, wizardVars, previewVars>>
besidesDialog == <<coreVars, templateVars, sessionVars, wizardVars, previewVars>>
besidesSession == <<coreVars, templateVars, dialogVars, wizardVars, previewVars>>
besidesWizard == <<coreVars, templateVars, dialogVars, sessionVars, previewVars>>
besidesPreview == <<coreVars, templateVars, dialogVars, sessionVars, wizardVars>>

vars == <<classifierVars, exporterVars, appVars>>

----------------------------------------------------------------------------
(* Bounds of the classifier inputs *)

MaxTitleLen == 3
MaxNoteLen == 1
MaxTemplates == 5
MaxTemplateIds == 6

(* The words a title is built from. *)
Tokens ==
    {"Bella", "30", "HS", "MG", "nail", "trim", "1st", "-", "(", ")",
     "lunch", "off"}

SeqUpTo(S, n) == UNION {[1..k -> S] : k \in 0..n}

Titles == SeqUpTo(Tokens, MaxTitleLen)
Notes == SeqUpTo(Tokens, MaxNoteLen)

(* JavaScript values an isWorkEvent argument or an event title can take. *)
Str(toks) == [kind |-> "string", toks |-> toks]
Null == [kind |-> "null"]
Undefined == [kind |-> "undefined"]
Num(n) == [kind |-> "number", n |-> n]
Obj(title) == [kind |-> "object", title |-> title]
NoTitleObj == [kind |-> "object"]

----------------------------------------------------------------------------
(* Classification rule set (EventProcessor) *)

DurationTokens == {"15", "20", "30", "45", "60"}
SequenceMarkers == {"Start", "1st", "2nd", "3rd", "Last"}
HouseSitMarkers == {"HS", "Housesit"}
MeetGreetMarkers == {"MG", "M&G"}
SuffixDashes == {"-", "en-dash"}

PersonalKeywords ==
    {"lunch", "therapy", "birthday", "anniversary", "shower",
     "doctor", "dentist", "massage", "nails", "haircut", "tattoo", "yoga",
     "acupuncture", "kroger", "grocery", "momentum", "webinar"}
PersonalPhrases ==
    {<<"appointment", "with">>, <<"house", "clean">>, <<"meeting", "with">>}

HasPhrase(toks, phrase) ==
    \E i \in 1..Len(toks) :
        /\ i + Len(phrase) - 1 <= Len(toks)
        /\ \A k \in 1..Len(phrase) : toks[i + k - 1] = phrase[k]

(* offDay: the title starts with the sparkle-off-sparkle marker or with *)
(* "off" followed by a dash.                                            *)
OffDay(toks) ==
    \/ Len(toks) >= 3 /\ toks[1] = "sparkles" /\ toks[2] = "off" /\ toks[3] = "sparkles"
    \/ Len(toks) >= 2 /\ toks[1] = "off" /\ toks[2] \in SuffixDashes

isDefinitelyPersonal(toks) ==
    \/ OffDay(toks)
    \/ \E i \in 1..Len(toks) : toks[i] \in PersonalKeywords
    \/ \E ph \in PersonalPhrases : HasPhrase(toks, ph)

(* Index of the first ")" at or after position i, 0 when there is none. *)
RECURSIVE NextClose(_, _)
NextClose(toks, i) ==
    IF i > Len(toks) THEN 0
    ELSE IF toks[i] = ")" THEN i
    ELSE NextClose(toks, i + 1)

(* title.replace(/\([^)]*\)/g, ''): scanning from the left, every "(" that *)
(* has a ")" somewhere after it is removed together with everything up to  *)
(* the first such ")".                                                     *)
RECURSIVE StripParens(_, _)
StripParens(toks, i) ==
    IF i > Len(toks) THEN <<>>
    ELSE IF toks[i] = "(" /\ NextClose(toks, i + 1) > 0
         THEN StripParens(toks, NextClose(toks, i + 1) + 1)
    ELSE <<toks[i]>> \o StripParens(toks, i + 1)

cleanTitle(toks) == StripParens(toks, 1)

(* marker at the end, optionally followed by [dash] sequence-marker *)
SuffixMatch(toks, markers) ==
    LET n == Len(toks) IN
    /\ n >= 1
    /\ \/ toks[n] \in markers
       \/ /\ n >= 2
          /\ toks[n] \in SequenceMarkers
          /\ \/ toks[n - 1] \in markers
             \/ n >= 3 /\ toks[n - 1] \in SuffixDashes /\ toks[n - 2] \in markers

meetAndGreet(toks) ==
    \/ \E i \in 1..Len(toks) : toks[i] \in MeetGreetMarkers
    \/ HasPhrase(toks, <<"Meet", "&", "Greet">>)
minutesSuffix(toks) == SuffixMatch(toks, DurationTokens)
houseSitSuffix(toks) == SuffixMatch(toks, HouseSitMarkers)
nailTrim(toks) == HasPhrase(toks, <<"nail", "trim">>)

MatchesWorkPattern(toks) ==
    \/ meetAndGreet(toks)
    \/ minutesSuffix(toks)
    \/ houseSitSuffix(toks)
    \/ nailTrim(toks)

Returned(b) == [threw |-> FALSE, value |-> b]
TypeError == [threw |-> TRUE, value |-> FALSE]

(* typeof x === 'string' ? x : x?.title *)
TitleOf(arg) ==
    IF arg.kind = "string" THEN arg
    ELSE IF arg.kind = "object" /\ "title" \in DOMAIN arg THEN arg.title
    ELSE Undefined

(* !title *)
Falsy(v) ==
    \/ v.kind \in {"null", "undefined"}
    \/ v.kind = "string" /\ v.toks = <<>>
    \/ v.kind = "number" /\ v.n = 0

(* Variant of the classifier that consults the work patterns before the *)
(* personal ones.                                                       *)
isWorkEventWorkFirst(arg) ==
    LET title == TitleOf(arg) IN
    IF Falsy(title) \/ title.kind # "string" THEN Returned(FALSE)
    ELSE IF MatchesWorkPattern(cleanTitle(title.toks)) THEN Returned(TRUE)
    ELSE Returned(FALSE)

(* Variant of the classifier without the title guard: trim is called on *)
(* whatever the title is.                                               *)
isWorkEventUnguarded(arg) ==
    LET title == IF arg.kind = "string" THEN arg
                 ELSE IF arg.kind = "object" /\ "title" \in DOMAIN arg
                      THEN arg.title
                 ELSE Null IN
    IF title.kind # "string" THEN TypeError
    ELSE IF isDefinitelyPersonal(title.toks) THEN Returned(FALSE)
    ELSE Returned(MatchesWorkPattern(cleanTitle(title.toks)))

(* Variant of the classifier that tests the work patterns on the title *)
(* as written, parenthetical notes included.                           *)
isWorkEventKeepNotes(arg) ==
    LET title == TitleOf(arg) IN
    IF Falsy(title) \/ title.kind # "string" THEN Returned(FALSE)
    ELSE IF isDefinitelyPersonal(title.toks) THEN Returned(FALSE)
    ELSE Returned(MatchesWorkPattern(title.toks))

isWorkEvent(arg) ==
    LET title == TitleOf(arg) IN
    IF Falsy(title) \/ title.kind # "string" THEN Returned(FALSE)
    ELSE IF isDefinitelyPersonal(title.toks) THEN Returned(FALSE)
    ELSE Returned(MatchesWorkPattern(cleanTitle(title.toks)))

(* No export call is under way. *)
SorterIdle ==
    /\ sortLevels = <<>>
    /\ sorted = <<>>
    /\ resorted = <<>>

NoTree == [leaf |-> TRUE, events |-> <<>>]

GrouperIdle ==
    /\ groupLevels = <<>>
    /\ grouped = NoTree
    /\ count = 0

NoOptions == [workEventsOnly |-> FALSE]
NoOutput == [kind |-> "none"]

ReportIdle ==
    /\ options = NoOptions
    /\ text = NoOutput
    /\ csv = NoOutput

CsvIdle ==
    /\ value = <<>>
    /\ escaped = <<>>

NoView == [view |-> "none", events |-> <<>>]

AnalyticsIdle ==
    /\ workOnlyMode = FALSE
    /\ analysed = NoView

NoKeySort == [groupType |-> "none", sortBy |-> "date", sortOrder |-> "asc"]

KeysIdle ==
    /\ groupKeys = <<>>
    /\ keySort = NoKeySort
    /\ keysOut = <<>>

ExporterIdle ==
    /\ events = <<>>
    /\ xpc = "idle"
    /\ SorterIdle
    /\ GrouperIdle
    /\ ReportIdle
    /\ CsvIdle
    /\ AnalyticsIdle
    /\ KeysIdle

(* No TemplatesManager has been constructed. *)
TemplatesIdle ==
    /\ templates = <<>>
    /\ tplNextId = 0
    /\ tplOutcome = "none"

(* The application around the exporter is not in use. *)
(* The export dialog has not been opened. *)
DialogIdle ==
    /\ groupDivs = <<>>
    /\ addDisabled = FALSE
    /\ dlgOutcome = "none"

NoSetup == [configured |-> FALSE, hasToken |-> FALSE]

(* The application has not been started. *)
SessionIdle ==
    /\ isAuthenticated = FALSE
    /\ useMockData = TRUE
    /\ apiSetup = NoSetup
    /\ cacheFresh = FALSE
    /\ appEvents = "mock"
    /\ eventsCache = "none"
    /\ fetches = {}
    /\ autoPc = "idle"
    /\ failedStep = "none"
    /\ logoutPc = "idle"

(* The multi-event wizard has not been opened. *)
WizardIdle ==
    /\ multiEventCurrentStep = 1
    /\ pendingMultiEvents = Null
    /\ storedEvents = <<>>
    /\ nextEventId = 0
    /\ previewListeners = 0
    /\ removedByClick = 0
    /\ creators = <<>>

NoPreview == [run |-> 0, events |-> "none"]

(* No export preview has been requested. *)
PreviewIdle ==
    /\ requested = 0
    /\ exportRuns = {}
    /\ exportPreview = NoPreview

AppIdle ==
    /\ TemplatesIdle
    /\ DialogIdle
    /\ SessionIdle
    /\ WizardIdle
    /\ PreviewIdle

NotRun == [threw |-> FALSE, value |-> FALSE, pending |-> TRUE]

(* No classification session is under way. *)
ClassifierIdle ==
    /\ input = Undefined
    /\ result = NotRun
    /\ prev = NotRun
    /\ cpc = "idle"

----------------------------------------------------------------------------
(* Dates.  A timestamp is a number of minutes since 1970-01-01T00:00; the  *)
(* local time zone is UTC.                                                 *)

MinutesPerDay == 24 * 60
At(day, hours, minutes) == day * MinutesPerDay + hours * 60 + minutes

(* new Date(x) of an x that does not parse is an Invalid Date: its time   *)
(* value is NaN, every getter returns NaN, arithmetic with NaN gives NaN    *)
(* and every comparison with NaN is false.  NaN is kept as a number no      *)
(* timestamp, difference or date part ever equals.                          *)
NaN == 0 - 999999999
IsNaN(x) == x = NaN
Minus(a, b) == IF IsNaN(a) \/ IsNaN(b) THEN NaN ELSE a - b
Negate(a) == IF IsNaN(a) THEN NaN ELSE 0 - a
(* Variant of Less that compares NaN as if it were an ordinary number. *)
LessAsNumbers(a, b) == a < b
Less(a, b) == ~ IsNaN(a) /\ ~ IsNaN(b) /\ a < b

DayOf(t) == IF IsNaN(t) THEN NaN ELSE t \div MinutesPerDay   \* midnight
MinuteOfDay(t) == IF IsNaN(t) THEN NaN ELSE t % MinutesPerDay
getDay(t) == IF IsNaN(t) THEN NaN ELSE (DayOf(t) + 4) % 7     \* 0 is Sunday

(* getFullYear / getMonth + 1 / getDate of the proleptic Gregorian calendar *)
CivilOf(day) ==
    IF IsNaN(day) THEN [y |-> NaN, m |-> NaN, d |-> NaN] ELSE
    LET z == day + 719468
        era == z \div 146097
        doe == z - era * 146097
        yoe == (doe - doe \div 1460 + doe \div 36524 - doe \div 146096) \div 365
        doy == doe - (365 * yoe + yoe \div 4 - yoe \div 100)
        mp == (5 * doy + 2) \div 153
        d == doy - (153 * mp + 2) \div 5 + 1
        m == IF mp < 10 THEN mp + 3 ELSE mp - 9
        y == yoe + era * 400 + (IF m <= 2 THEN 1 ELSE 0)
    IN [y |-> y, m |-> m, d |-> d]

(* A label is a string kept in parts: its words and its numbers. *)
Label(words, nums) == [words |-> words, nums |-> nums]

formatDate(t) ==
    LET c == CivilOf(DayOf(t)) IN Label(<<>>, <<c.m, c.d, c.y>>)

getWeekStart(t) ==
    IF IsNaN(t) THEN NaN ELSE (DayOf(t) - getDay(t)) * MinutesPerDay

getWeekLabel(t) ==
    Label(<<"Week of">>, formatDate(getWeekStart(t)).nums)

getMonthLabel(t) ==
    LET c == CivilOf(DayOf(t)) IN Label(<<>>, <<c.m, c.y>>)

----------------------------------------------------------------------------
(* Events and what the exporter derives from their titles *)

(* A calendar event as the application state holds it; a new event is *)
(* neither ignored nor all-day.                                       *)
Event(id, title, start, end, type) ==
    [id |-> id, title |-> title, start |-> start, end |-> end, type |-> type,
     ignored |-> FALSE, isAllDay |-> FALSE]

NameDashes == {"-", "en-dash", "em-dash"}

(* Longest prefix of toks that holds no dash. *)
RECURSIVE BeforeDash(_)
BeforeDash(toks) ==
    IF toks = <<>> \/ Head(toks) \in NameDashes THEN <<>>
    ELSE <<Head(toks)>> \o BeforeDash(Tail(toks))

(* name.replace(/\b(marker)\s*$/i, ''): one trailing marker is removed *)
StripTrailing(toks, markers) ==
    IF toks # <<>> /\ toks[Len(toks)] \in markers
    THEN SubSeq(toks, 1, Len(toks) - 1)
    ELSE toks

extractClientName(title) ==
    IF Falsy(title) THEN <<>>
    ELSE LET clean == cleanTitle(title.toks)
             dashMatch == BeforeDash(clean)
         IN IF dashMatch # <<>>
            THEN StripTrailing(StripTrailing(dashMatch, DurationTokens),
                               MeetGreetMarkers \cup HouseSitMarkers)
            ELSE clean

(* event.title || '' *)
TitleToks(event) == IF Falsy(event.title) THEN <<>> ELSE event.title.toks

OvernightWords == HouseSitMarkers \cup {"overnight"}

isOvernightEvent(event) ==
    \/ event.type = "overnight"
    \/ \E i \in 1..Len(TitleToks(event)) : TitleToks(event)[i] \in OvernightWords

(* Math.max: NaN when either argument is NaN *)
Max(a, b) == IF IsNaN(a) \/ IsNaN(b) THEN NaN ELSE IF a >= b THEN a ELSE b

calculateOvernightNights(event) ==
    IF ~ isOvernightEvent(event) THEN 0
    ELSE Max(1, Minus(DayOf(event.end), DayOf(event.start)))

isEndOvernightMarker(event) ==
    \E w \in OvernightWords : HasPhrase(TitleToks(event), <<"end", w>>)

(* Variant of shouldIncludeEventOnDate that lets end markers through. *)
shouldIncludeEventOnDateKeepMarkers(event, checkDate) ==
    IF ~ isOvernightEvent(event) THEN TRUE
    ELSE ~ IsNaN(DayOf(event.start)) /\ DayOf(event.start) = DayOf(checkDate)

shouldIncludeEventOnDate(event, checkDate) ==
    IF isEndOvernightMarker(event) THEN FALSE
    ELSE IF ~ isOvernightEvent(event) THEN TRUE
    ELSE ~ IsNaN(DayOf(event.start)) /\ DayOf(event.start) = DayOf(checkDate)

(* Number a duration token spells. *)
DurationValue(tok) ==
    CASE tok = "15" -> 15 [] tok = "20" -> 20 [] tok = "30" -> 30
      [] tok = "45" -> 45 [] tok = "60" -> 60

FirstDuration(toks) ==
    LET i == CHOOSE k \in 1..Len(toks) :
                 /\ toks[k] \in DurationTokens
                 /\ \A j \in 1..(k - 1) : toks[j] \notin DurationTokens
    IN DurationValue(toks[i])

formatServiceType(event) ==
    LET toks == TitleToks(event) IN
    IF isOvernightEvent(event)
    THEN Label(<<"Overnight">>, <<calculateOvernightNights(event)>>)
    ELSE IF HasPhrase(toks, <<"nail", "trim">>) THEN Label(<<"Nail Trim">>, <<>>)
    ELSE IF \E k \in 1..Len(toks) : toks[k] \in DurationTokens
         THEN Label(<<"-min">>, <<FirstDuration(toks)>>)
    ELSE IF meetAndGreet(toks) THEN Label(<<"Meet & Greet">>, <<>>)
    ELSE IF event.type = "walk" THEN Label(<<"Dog Walk">>, <<>>)
    ELSE Label(<<"Visit">>, <<>>)

----------------------------------------------------------------------------
(* Multi-level sorter *)

(* Words in the order String.prototype.localeCompare gives their lower-case *)
(* spellings: punctuation, then digits, then letters.                       *)
CollationOrder ==
    <<"-", "en-dash", "em-dash", "(", ")", "15", "1st", "20", "30", "45", "60",
      "Bella", "end", "HS", "lunch", "MG", "Milo", "nail", "off", "overnight",
      "trim">>

WordRank(w) == CHOOSE i \in 1..Len(CollationOrder) : CollationOrder[i] = w

Sign(n) == IF n < 0 THEN -1 ELSE IF n > 0 THEN 1 ELSE 0

(* Lexicographic comparison of two sequences of numbers: -1, 0 or 1. *)
RECURSIVE CompareSeq(_, _)
CompareSeq(a, b) ==
    IF a = <<>> THEN (IF b = <<>> THEN 0 ELSE -1)
    ELSE IF b = <<>> THEN 1
    ELSE IF Head(a) # Head(b) THEN Sign(Head(a) - Head(b))
    ELSE CompareSeq(Tail(a), Tail(b))

(* a.toLowerCase().localeCompare(b.toLowerCase()) on client names *)
NameKey(toks) == [i \in 1..Len(toks) |-> WordRank(toks[i])]

(* Position of a service label among the lower-cased labels: "NN-min" by *)
(* its digits, then dog walk, meet & greet, nail trim, overnight (by the  *)
(* night count, below ten), visit.                                        *)
(* Digits as they collate: the text "NaN" comes after every digit string. *)
Digits(nums) == [i \in 1..Len(nums) |-> IF IsNaN(nums[i]) THEN 0 - NaN ELSE nums[i]]

ServiceKey(label) ==
    CASE label.words = <<"-min">> -> <<0, label.nums[1]>>
      [] label.words = <<"Dog Walk">> -> <<1>>
      [] label.words = <<"Meet & Greet">> -> <<2>>
      [] label.words = <<"Nail Trim">> -> <<3>>
      [] label.words = <<"Overnight">> -> <<4>> \o Digits(label.nums)
      [] label.words = <<"Visit">> -> <<5>>

(* Variant of compareEvents whose 'time' case compares the whole timestamp. *)
compareEventsTimeAsDate(a, b, sortField) ==
    CASE sortField = "client" ->
            CompareSeq(NameKey(extractClientName(a.title)),
                       NameKey(extractClientName(b.title)))
      [] sortField = "service" ->
            CompareSeq(ServiceKey(formatServiceType(a)),
                       ServiceKey(formatServiceType(b)))
      [] OTHER -> Minus(a.start, b.start)

(* Variant of compareEvents that reports a tie for an unknown field. *)
compareEventsUnknownIsTie(a, b, sortField) ==
    CASE sortField = "client" ->
            CompareSeq(NameKey(extractClientName(a.title)),
                       NameKey(extractClientName(b.title)))
      [] sortField = "service" ->
            CompareSeq(ServiceKey(formatServiceType(a)),
                       ServiceKey(formatServiceType(b)))
      [] sortField = "time" ->
            Minus(MinuteOfDay(a.start), MinuteOfDay(b.start))
      [] sortField = "date" -> Minus(a.start, b.start)
      [] OTHER -> 0

compareEvents(a, b, sortField) ==
    CASE sortField = "client" ->
            CompareSeq(NameKey(extractClientName(a.title)),
                       NameKey(extractClientName(b.title)))
      [] sortField = "service" ->
            CompareSeq(ServiceKey(formatServiceType(a)),
                       ServiceKey(formatServiceType(b)))
      [] sortField = "time" ->
            Minus(MinuteOfDay(a.start), MinuteOfDay(b.start))
      [] OTHER -> Minus(a.start, b.start)

(* The comparator sortEventsMultiLevel hands to Array.prototype.sort, from *)
(* level i on.                                                             *)
RECURSIVE LevelsFrom(_, _, _, _)
LevelsFrom(a, b, levels, i) ==
    IF i > Len(levels) THEN Minus(a.start, b.start)
    ELSE LET c == compareEvents(a, b, levels[i].sortBy)
             comparison == IF levels[i].sortOrder = "desc" THEN Negate(c) ELSE c
         IN IF comparison # 0 THEN comparison
            ELSE LevelsFrom(a, b, levels, i + 1)

(* Variant of the comparator without the final tie-breaker. *)
ComparatorNoTieBreak(a, b, levels) ==
    LET c == LevelsFrom(a, b, levels, 1) IN
    IF \A i \in 1..Len(levels) : compareEvents(a, b, levels[i].sortBy) = 0
    THEN 0 ELSE c

(* Variant of the comparator that reports a tie as "a after b". *)
ComparatorTieIsGreater(a, b, levels) ==
    LET c == LevelsFrom(a, b, levels, 1) IN IF c = 0 THEN 1 ELSE c

Comparator(a, b, levels) == LevelsFrom(a, b, levels, 1)

(* sortEvents (legacy): primary field, optional secondary field, then the *)
(* date unless one of the two is the date; one direction for all of it.   *)
LegacyComparator(a, b, primarySort, secondarySort, sortOrder) ==
    LET c1 == compareEvents(a, b, primarySort)
        c2 == IF c1 = 0 /\ secondarySort # "none"
              THEN compareEvents(a, b, secondarySort) ELSE c1
        c3 == IF c2 = 0 /\ primarySort # "date" /\ secondarySort # "date"
              THEN compareEvents(a, b, "date") ELSE c2
    IN IF sortOrder = "desc" THEN Negate(c3) ELSE c3

(* Days since 1970-01-01 of a civil date: new Date(year, month - 1, day) *)
DaysFromCivil(year, month, day) ==
    IF IsNaN(year) \/ IsNaN(month) \/ IsNaN(day) THEN NaN ELSE
    LET y == IF month <= 2 THEN year - 1 ELSE year
        era == y \div 400
        yoe == y - era * 400
        mp == IF month > 2 THEN month - 3 ELSE month + 9
        doy == (153 * mp + 2) \div 5 + day - 1
        doe == yoe * 365 + yoe \div 4 - yoe \div 100 + doy
    IN era * 146097 + doe - 719468

(* Timestamp a date, week or month group key is parsed back into. *)
parseGroupKeyToDate(key, groupType) ==
    LET day == IF groupType = "month"
               THEN DaysFromCivil(key.nums[2], key.nums[1], 1)
               ELSE DaysFromCivil(key.nums[3], key.nums[1], key.nums[2])
    IN IF IsNaN(day) THEN NaN ELSE day * MinutesPerDay

(* a.localeCompare(b) on two group keys of one level *)
CompareLabels(a, b, groupType) ==
    IF groupType = "client" THEN CompareSeq(NameKey(a.words), NameKey(b.words))
    ELSE IF groupType = "service" THEN CompareSeq(ServiceKey(a), ServiceKey(b))
    ELSE CompareSeq(Digits(a.nums), Digits(b.nums))

LevelsCmp(levels) == [kind |-> "levels", levels |-> levels]
LegacyCmp(primarySort, secondarySort, sortOrder) ==
    [kind |-> "legacy", primary |-> primarySort, secondary |-> secondarySort,
     order |-> sortOrder]
StartCmp == [kind |-> "start"]
KeyDateCmp(groupType) == [kind |-> "keyDate", groupType |-> groupType]
KeyAlphaCmp(groupType) == [kind |-> "keyAlpha", groupType |-> groupType]

(* The comparison functions handed to Array.prototype.sort. *)
CompareWith(a, b, cmp) ==
    CASE cmp.kind = "levels" -> Comparator(a, b, cmp.levels)
      [] cmp.kind = "legacy" ->
            LegacyComparator(a, b, cmp.primary, cmp.secondary, cmp.order)
      [] cmp.kind = "start" -> Minus(a.start, b.start)
      [] cmp.kind = "keyDate" ->
            Minus(parseGroupKeyToDate(a, cmp.groupType),
                  parseGroupKeyToDate(b, cmp.groupType))
      [] cmp.kind = "keyAlpha" -> CompareLabels(a, b, cmp.groupType)

(* Array.prototype.sort is stable; with a comparator that is a weak order *)
(* its result is the one a stable insertion sort produces.  A comparator   *)
(* result of NaN is taken as +0, so it never counts as "greater".          *)
RECURSIVE InsertStable(_, _, _)
InsertStable(arr, x, cmp) ==
    IF arr = <<>> THEN <<x>>
    ELSE IF Less(0, CompareWith(arr[Len(arr)], x, cmp))
         THEN InsertStable(SubSeq(arr, 1, Len(arr) - 1), x, cmp)
                  \o <<arr[Len(arr)]>>
    ELSE arr \o <<x>>

RECURSIVE ArraySort(_, _)
ArraySort(arr, cmp) ==
    IF arr = <<>> THEN <<>>
    ELSE InsertStable(ArraySort(SubSeq(arr, 1, Len(arr) - 1), cmp),
                      arr[Len(arr)], cmp)

SortLevel(sortBy, sortOrder) == [sortBy |-> sortBy, sortOrder |-> sortOrder]

(* if (levels.length === 0) levels.push({ sortBy: 'time', sortOrder: 'asc' }) *)
NormalizeLevels(levels) ==
    IF levels = <<>> THEN <<SortLevel("time", "asc")>> ELSE levels

sortEventsMultiLevel(evts, levels) ==
    ArraySort(evts, LevelsCmp(NormalizeLevels(levels)))

sortEvents(evts, primarySort, secondarySort, sortOrder) ==
    ArraySort(evts, LegacyCmp(primarySort, secondarySort, sortOrder))

----------------------------------------------------------------------------
(* Sorting session: a caller sorts an event list and sorts the result once *)
(* more with the same specification.                                       *)

MaxEvents == 3
MaxSortLevels == 2

SortFields == {"date", "time", "client", "service"}
SortOrders == {"asc", "desc"}
SortLevelChoices == {SortLevel(f, o) : f \in SortFields, o \in SortOrders}
(* A level that repeats the field of an earlier level can never decide a  *)
(* comparison (it is reached only when that field ties), so the level     *)
(* lists name each field at most once.                                    *)
SortSpecs ==
    {levels \in SeqUpTo(SortLevelChoices, MaxSortLevels) :
        \A i, j \in 1..Len(levels) :
            i # j => levels[i].sortBy # levels[j].sortBy}

SortTitles == {<<"Bella", "45">>, <<"Milo", "30">>}
SortStarts == {At(20421, 9, 0), At(20421, 10, 0), At(20422, 9, 0)}

(* Event lists of up to n visits; an event's id is its place in the list. *)
VisitLists(titles, starts, n) ==
    UNION {{[i \in 1..k |->
                Event(i, Str(f[i][1]), f[i][2], f[i][2] + 30, "dropin")] :
            f \in [1..k -> titles \X starts]} : k \in 0..n}

SortInit ==
    /\ ClassifierIdle
    /\ GrouperIdle
    /\ ReportIdle
    /\ CsvIdle
    /\ AnalyticsIdle
    /\ KeysIdle
    /\ AppIdle
    /\ events \in VisitLists(SortTitles, SortStarts, MaxEvents)
    /\ sortLevels \in SortSpecs
    /\ sorted = <<>>
    /\ resorted = <<>>
    /\ xpc = "start"

(* sortEventsMultiLevel pushes the default level onto the array it was *)
(* handed when that array is empty, so the caller's list changes too.  *)
SortEvents ==
    /\ xpc = "start"
    /\ sorted' = sortEventsMultiLevel(events, sortLevels)
    /\ sortLevels' = NormalizeLevels(sortLevels)
    /\ xpc' = "sorted"
    /\ UNCHANGED <<events, resorted>>
    /\ UNCHANGED <<appVars, classifierVars, grouperVars, reportVars, csvVars, analyticsVars, keyVars>>

ReSort ==
    /\ xpc = "sorted"
    /\ resorted' = sortEventsMultiLevel(sorted, sortLevels)
    /\ sortLevels' = NormalizeLevels(sortLevels)
    /\ xpc' = "resorted"
    /\ UNCHANGED <<events, sorted>>
    /\ UNCHANGED <<appVars, classifierVars, grouperVars, reportVars, csvVars, analyticsVars, keyVars>>

SortNext == SortEvents \/ ReSort

(* The same session with a sort specification that names, at one level, a *)
(* field compareEvents has no case for.                                   *)
UnknownLevels == {SortLevel("priority", o) : o \in SortOrders}

UnknownSortSpecs ==
    {levels \in SeqUpTo(SortLevelChoices \cup UnknownLevels, MaxSortLevels) :
        /\ \E i \in 1..Len(levels) : levels[i] \in UnknownLevels
        /\ \A i, j \in 1..Len(levels) :
              i # j => levels[i].sortBy # levels[j].sortBy}

UnknownSortInit ==
    /\ ClassifierIdle
    /\ GrouperIdle
    /\ ReportIdle
    /\ CsvIdle
    /\ AnalyticsIdle
    /\ KeysIdle
    /\ AppIdle
    /\ events \in VisitLists(SortTitles, SortStarts, MaxEvents)
    /\ sortLevels \in UnknownSortSpecs
    /\ sorted = <<>>
    /\ resorted = <<>>
    /\ xpc = "start"

----------------------------------------------------------------------------
(* Grouping engine.  A group node is a leaf (an event array) or a Map from *)
(* group key to child node, kept as the sequence of its entries in         *)
(* insertion order.                                                        *)

Leaf(evts) == [leaf |-> TRUE, events |-> evts]
Branch(entries) == [leaf |-> FALSE, entries |-> entries]
Entry(key, child) == [key |-> key, child |-> child]

(* Variant of getGroupKey whose 'date' case reads the end of the event. *)
getGroupKeyByEnd(event, groupType) ==
    CASE groupType = "client" -> Label(extractClientName(event.title), <<>>)
      [] groupType = "service" -> formatServiceType(event)
      [] groupType = "date" -> formatDate(event.end)
      [] groupType = "week" -> getWeekLabel(event.start)
      [] groupType = "month" -> getMonthLabel(event.start)
      [] OTHER -> Label(<<"Unknown">>, <<>>)

getGroupKey(event, groupType) ==
    CASE groupType = "client" -> Label(extractClientName(event.title), <<>>)
      [] groupType = "service" -> formatServiceType(event)
      [] groupType = "date" -> formatDate(event.start)
      [] groupType = "week" -> getWeekLabel(event.start)
      [] groupType = "month" -> getMonthLabel(event.start)
      [] OTHER -> Label(<<"Unknown">>, <<>>)

(* Keys of the Map in insertion order: each key at its first event. *)
RECURSIVE KeysInOrder(_, _)
KeysInOrder(evts, groupType) ==
    IF evts = <<>> THEN <<>>
    ELSE LET front == KeysInOrder(SubSeq(evts, 1, Len(evts) - 1), groupType)
             key == getGroupKey(evts[Len(evts)], groupType)
         IN IF \E i \in 1..Len(front) : front[i] = key THEN front
            ELSE front \o <<key>>

(* Variant of the bucket fill that sets the bucket to the event instead *)
(* of pushing the event onto it.                                        *)
RECURSIVE BucketOverwritten(_, _, _)
BucketOverwritten(evts, groupType, key) ==
    IF evts = <<>> THEN <<>>
    ELSE IF getGroupKey(evts[Len(evts)], groupType) = key
         THEN <<evts[Len(evts)]>>
    ELSE BucketOverwritten(SubSeq(evts, 1, Len(evts) - 1), groupType, key)

(* grouped.get(key) once every event has been pushed *)
RECURSIVE Bucket(_, _, _)
Bucket(evts, groupType, key) ==
    IF evts = <<>> THEN <<>>
    ELSE LET rest == Bucket(Tail(evts), groupType, key) IN
         IF getGroupKey(Head(evts), groupType) = key
         THEN <<Head(evts)>> \o rest
         ELSE rest

RECURSIVE buildNestedGroups(_, _)
buildNestedGroups(evts, levels) ==
    IF levels = <<>> THEN Leaf(evts)
    ELSE LET keys == KeysInOrder(evts, Head(levels)) IN
         Branch([i \in 1..Len(keys) |->
                    Entry(keys[i],
                          buildNestedGroups(Bucket(evts, Head(levels), keys[i]),
                                            Tail(levels)))])

RECURSIVE SumFrom(_, _)
SumFrom(nums, i) == IF i > Len(nums) THEN 0 ELSE nums[i] + SumFrom(nums, i + 1)

RECURSIVE countEvents(_)
countEvents(data) ==
    IF data.leaf THEN Len(data.events)
    ELSE SumFrom([i \in 1..Len(data.entries) |->
                     countEvents(data.entries[i].child)], 1)

----------------------------------------------------------------------------
(* Grouping session: a caller builds the group tree of an event list and *)
(* counts the events under its root.                                     *)

MaxGroupLevels == 2

GroupTypes == {"date", "week", "month", "client", "service", "location"}
GroupSpecs == SeqUpTo(GroupTypes, MaxGroupLevels)

GroupTitles == {<<"Bella", "30">>, <<"Milo", "-", "45">>}
GroupStarts == {At(20421, 9, 0), At(20422, 9, 0), At(20423, 9, 0)}

GroupInit ==
    /\ ClassifierIdle
    /\ SorterIdle
    /\ ReportIdle
    /\ CsvIdle
    /\ AnalyticsIdle
    /\ KeysIdle
    /\ AppIdle
    /\ events \in VisitLists(GroupTitles, GroupStarts, MaxEvents)
    /\ groupLevels \in GroupSpecs
    /\ grouped = NoTree
    /\ count = 0
    /\ xpc = "start"

BuildGroups ==
    /\ xpc = "start"
    /\ grouped' = buildNestedGroups(events, groupLevels)
    /\ xpc' = "grouped"
    /\ UNCHANGED <<events, groupLevels, count>>
    /\ UNCHANGED <<appVars, classifierVars, sorterVars, reportVars, csvVars, analyticsVars, keyVars>>

CountGroups ==
    /\ xpc = "grouped"
    /\ count' = countEvents(grouped)
    /\ xpc' = "counted"
    /\ UNCHANGED <<events, groupLevels, grouped>>
    /\ UNCHANGED <<appVars, classifierVars, sorterVars, reportVars, csvVars, analyticsVars, keyVars>>

GroupNext == BuildGroups \/ CountGroups

----------------------------------------------------------------------------
(* Report renderer.  A text report is kept as its header fields and the   *)
(* sequence of its body lines; a CSV export as its header and its rows.   *)
(* Each event line and row also records the id of the event it prints.    *)
(* The events of the model carry no location, so the location suffix is   *)
(* always empty, and no client or service label of the model holds a      *)
(* comma, a quote or a newline, so escapeCSV leaves them as they are.     *)

DateValue(t) == [kind |-> "date", t |-> t]
NoLabel == Label(<<>>, <<>>)

(* With an Invalid Date the hours are NaN: not >= 12, and falsy after % 12, *)
(* so the text is "12:NaN AM".                                              *)
formatTime(t) ==
    IF IsNaN(t) THEN Label(<<"AM">>, <<12, NaN>>) ELSE
    LET hours == MinuteOfDay(t) \div 60
        h12 == IF hours % 12 = 0 THEN 12 ELSE hours % 12
    IN Label(<<IF hours >= 12 THEN "PM" ELSE "AM">>, <<h12, MinuteOfDay(t) % 60>>)

(* The filter callback shared by generateTextList and generateCSV. *)
PassesFilter(event, opts) ==
    IF opts.workEventsOnly /\ ~ isWorkEvent(Obj(event.title)).value THEN FALSE
    ELSE IF opts.startDate # Null /\ Less(event.start, opts.startDate.t) THEN FALSE
    ELSE IF opts.endDate # Null /\ Less(opts.endDate.t, event.start) THEN FALSE
    ELSE TRUE

Reverse(arr) == [i \in 1..Len(arr) |-> arr[Len(arr) + 1 - i]]

(* Variant of sortGroupKeys that compares the labels for every group type. *)
sortGroupKeysByLabel(keys, groupType, sortBy, sortOrder) ==
    LET ascending == ArraySort(keys, KeyAlphaCmp(groupType))
    IN IF sortOrder = "desc" THEN Reverse(ascending) ELSE ascending

sortGroupKeys(keys, groupType, sortBy, sortOrder) ==
    LET isDateBasedGroup == groupType \in {"date", "week", "month"}
        ascending == IF isDateBasedGroup /\ sortBy # "alpha"
                     THEN ArraySort(keys, KeyDateCmp(groupType))
                     ELSE ArraySort(keys, KeyAlphaCmp(groupType))
    IN IF sortOrder = "desc" THEN Reverse(ascending) ELSE ascending

GroupLine(depth, key, n) ==
    [kind |-> "group", depth |-> depth, key |-> key, count |-> n]
BlankLine == [kind |-> "blank"]
EventLine(event, depth, bullet, showDate, includeTime) ==
    [kind |-> "event", depth |-> depth, bullet |-> bullet, id |-> event.id,
     date |-> IF showDate THEN formatDate(event.start) ELSE NoLabel,
     client |-> extractClientName(event.title),
     service |-> formatServiceType(event),
     time |-> IF includeTime THEN formatTime(event.start) ELSE NoLabel]

generateSimpleList(evts, includeTime) ==
    [i \in 1..Len(evts) |-> EventLine(evts[i], 0, FALSE, TRUE, includeTime)]

(* data.get(key) *)
ChildOf(data, key) ==
    data.entries[CHOOSE i \in 1..Len(data.entries) : data.entries[i].key = key].child

RECURSIVE renderNestedGroups(_, _, _, _, _, _)
RECURSIVE RenderKeysFrom(_, _, _, _, _, _, _, _)
renderNestedGroups(data, levels, depth, includeTime, groupSort, eventSortLevels) ==
    IF data.leaf
    THEN LET sortedEvents == sortEventsMultiLevel(data.events, eventSortLevels)
             showDate == \A i \in 1..Len(levels) :
                             levels[i] \notin {"date", "week", "month"}
         IN [i \in 1..Len(sortedEvents) |->
                EventLine(sortedEvents[i], depth, TRUE, showDate, includeTime)]
    ELSE LET keys == [i \in 1..Len(data.entries) |-> data.entries[i].key]
             sortedKeys == sortGroupKeys(keys, levels[depth + 1],
                                         groupSort.sortBy, groupSort.sortOrder)
         IN RenderKeysFrom(data, sortedKeys, 1, levels, depth, includeTime,
                           groupSort, eventSortLevels)
RenderKeysFrom(data, sortedKeys, i, levels, depth, includeTime, groupSort, eventSortLevels) ==
    IF i > Len(sortedKeys) THEN <<>>
    ELSE <<GroupLine(depth, sortedKeys[i],
                     countEvents(ChildOf(data, sortedKeys[i])))>>
         \o renderNestedGroups(ChildOf(data, sortedKeys[i]), levels, depth + 1,
                               includeTime, groupSort, eventSortLevels)
         \o <<BlankLine>>
         \o RenderKeysFrom(data, sortedKeys, i + 1, levels, depth, includeTime,
                           groupSort, eventSortLevels)

generateDynamicGrouping(evts, levels, includeTime, groupSort, eventSort) ==
    IF levels = <<>> THEN generateSimpleList(evts, includeTime)
    ELSE renderNestedGroups(buildNestedGroups(evts, levels), levels, 0,
                            includeTime, groupSort, eventSort)

(* groupBy.split('-').filter(level => level && level !== 'none') *)
GroupLevelsOf(groupBy) ==
    SelectSeq(groupBy, LAMBDA part : part # "" /\ part # "none")

(* output.trim(): the blank lines that end the body are dropped *)
RECURSIVE TrimEnd(_)
TrimEnd(lines) ==
    IF lines # <<>> /\ lines[Len(lines)] = BlankLine
    THEN TrimEnd(SubSeq(lines, 1, Len(lines) - 1))
    ELSE lines

Sentinel == [kind |-> "sentinel"]
TextReport(header, body) == [kind |-> "report", header |-> header, body |-> body]
CsvExport(header, rows) == [kind |-> "csv", header |-> header, rows |-> rows]

(* Variant of generateTextList without the empty-result check: summary *)
(* header left out, as it cannot be computed from no events.           *)
generateTextListNoSentinel(evts, opts) ==
    LET filtered == SelectSeq(evts, LAMBDA e : PassesFilter(e, opts))
        onStart == SelectSeq(filtered,
                             LAMBDA e : shouldIncludeEventOnDate(e, e.start))
        filteredEvents == sortEventsMultiLevel(onStart, opts.eventSort)
    IN TextReport([total |-> Len(filteredEvents)],
                  TrimEnd(generateDynamicGrouping(filteredEvents,
                              GroupLevelsOf(opts.groupBy), opts.includeTime,
                              opts.groupSort, opts.eventSort)))

generateTextList(evts, opts) ==
    LET filtered == SelectSeq(evts, LAMBDA e : PassesFilter(e, opts))
        onStart == SelectSeq(filtered,
                             LAMBDA e : shouldIncludeEventOnDate(e, e.start))
        filteredEvents == sortEventsMultiLevel(onStart, opts.eventSort)
    IN IF filteredEvents = <<>> THEN Sentinel
       ELSE LET sortedByDate == ArraySort(filteredEvents, StartCmp)
                header ==
                    [filterLabel |-> IF opts.workEventsOnly THEN "Work Events"
                                     ELSE "All Events",
                     first |-> formatDate(sortedByDate[1].start),
                     last |-> formatDate(sortedByDate[Len(sortedByDate)].start),
                     total |-> Len(filteredEvents)]
                levels == GroupLevelsOf(opts.groupBy)
            IN TextReport(header,
                   TrimEnd(IF levels # <<>>
                           THEN generateDynamicGrouping(filteredEvents, levels,
                                    opts.includeTime, opts.groupSort,
                                    opts.eventSort)
                           ELSE generateSimpleList(filteredEvents,
                                                   opts.includeTime)))

CsvColumns(includeLocation) ==
    IF includeLocation
    THEN <<"Date", "Time", "Client/Pet", "Service Type", "Duration", "Location">>
    ELSE <<"Date", "Time", "Client/Pet", "Service Type", "Duration">>

(* Math.round, Math.floor and % of NaN are NaN, and NaN > 0 is false. *)
CsvDuration(event) ==
    LET durationMinutes == Minus(event.end, event.start)
        durationHours == IF IsNaN(durationMinutes) THEN NaN
                         ELSE durationMinutes \div 60
        remainingMinutes == IF IsNaN(durationMinutes) THEN NaN
                            ELSE durationMinutes % 60
    IN IF Less(0, durationHours)
       THEN Label(<<"h", "m">>, <<durationHours, remainingMinutes>>)
       ELSE Label(<<"m">>, <<remainingMinutes>>)

CsvLine(event) ==
    [id |-> event.id, date |-> formatDate(event.start),
     time |-> formatTime(event.start),
     client |-> extractClientName(event.title),
     service |-> formatServiceType(event), duration |-> CsvDuration(event)]

(* options.sortBy = 'date', secondarySort = null, sortOrder = 'asc' unless given *)
OptionOr(opts, name, default) ==
    IF name \in DOMAIN opts THEN opts[name] ELSE default

generateCSV(evts, opts) ==
    LET filtered == SelectSeq(evts, LAMBDA e : PassesFilter(e, opts))
        filteredEvents == sortEvents(filtered,
                                     OptionOr(opts, "sortBy", "date"),
                                     OptionOr(opts, "secondarySort", "none"),
                                     OptionOr(opts, "sortOrder", "asc"))
        included == SelectSeq(filteredEvents,
                              LAMBDA e : shouldIncludeEventOnDate(e, e.start))
    IN CsvExport(CsvColumns(opts.includeLocation),
                 [i \in 1..Len(included) |-> CsvLine(included[i])])

----------------------------------------------------------------------------
(* Report session: a caller renders an event list as text and as CSV with *)
(* the same options.                                                      *)

VisitShapes ==
    {<<<<"Milo", "30">>, At(20421, 9, 0), At(20421, 9, 30), "dropin">>,
     <<<<"Milo", "30">>, At(20422, 9, 0), At(20422, 9, 30), "dropin">>,
     <<<<"Bella", "HS">>, At(20421, 18, 0), At(20423, 8, 0), "overnight">>,
     <<<<"end", "HS">>, At(20423, 8, 0), At(20423, 8, 30), "overnight">>,
     <<<<"lunch">>, At(20422, 12, 0), At(20422, 13, 0), "other">>}

(* A visit the operator marked as ignored, and an all-day entry. *)
FlaggedShapes ==
    {<<<<"Milo", "30">>, At(20422, 9, 0), At(20422, 9, 30), "dropin", "ignored">>,
     <<<<"Bella", "30">>, At(20422, 0, 0), At(20423, 0, 0), "dropin", "isAllDay">>}

EventOfShape(i, shape) ==
    LET e == Event(i, Str(shape[1]), shape[2], shape[3], shape[4]) IN
    IF Len(shape) = 4 THEN e
    ELSE [e EXCEPT ![shape[5]] = TRUE]

ReportLists ==
    UNION {{[i \in 1..k |-> EventOfShape(i, f[i])] :
            f \in [1..k -> VisitShapes \cup FlaggedShapes]} : k \in 0..MaxEvents}

DateRanges ==
    {<<Null, Null>>,
     <<DateValue(At(20422, 0, 0)), DateValue(At(20422, 23, 59))>>}

ReportOptions ==
    {[startDate |-> r[1], endDate |-> r[2], includeTime |-> TRUE,
      includeLocation |-> FALSE, groupBy |-> g,
      groupSort |-> [sortBy |-> "date", sortOrder |-> o],
      eventSort |-> es, workEventsOnly |-> w] :
        r \in DateRanges,
        g \in {<<"date">>, <<"none">>, <<"client", "date">>},
        o \in SortOrders,
        es \in {<<>>, <<SortLevel("time", "asc")>>, <<SortLevel("client", "desc")>>},
        w \in BOOLEAN}

ReportInit ==
    /\ ClassifierIdle
    /\ SorterIdle
    /\ GrouperIdle
    /\ CsvIdle
    /\ AnalyticsIdle
    /\ KeysIdle
    /\ AppIdle
    /\ events \in ReportLists
    /\ options \in ReportOptions
    /\ text = NoOutput
    /\ csv = NoOutput
    /\ xpc = "start"

(* The eventSort array of the options is the one sortEventsMultiLevel is *)
(* handed (line 308), so an empty one receives the default level.        *)
GenerateTextList ==
    /\ xpc = "start"
    /\ text' = generateTextList(events, options)
    /\ options' = [options EXCEPT !.eventSort = NormalizeLevels(@)]
    /\ xpc' = "text"
    /\ UNCHANGED <<events, csv>>
    /\ UNCHANGED <<appVars, classifierVars, sorterVars, grouperVars, csvVars, analyticsVars, keyVars>>

GenerateCSV ==
    /\ xpc = "text"
    /\ csv' = generateCSV(events, options)
    /\ xpc' = "done"
    /\ UNCHANGED <<events, options, text>>
    /\ UNCHANGED <<appVars, classifierVars, sorterVars, grouperVars, csvVars, analyticsVars, keyVars>>

(* The same calls with an option bag that carries a searchTerm, as the *)
(* export dialog builds it.                                            *)
SearchShapes ==
    {<<<<"Milo", "-", "30">>, At(20421, 10, 0), At(20421, 10, 30), "dropin">>,
     <<<<"Bella", "30">>, At(20422, 12, 0), At(20422, 12, 30), "dropin">>,
     <<<<"lunch">>, At(20421, 12, 0), At(20421, 13, 0), "other">>}

SearchLists ==
    UNION {{[i \in 1..k |-> EventOfShape(i, f[i])] :
            f \in [1..k -> SearchShapes]} : k \in 0..MaxEvents}

SearchOptions ==
    {[startDate |-> DateValue(At(20421, 0, 0)),
      endDate |-> DateValue(At(20423, 0, 0)), includeTime |-> FALSE,
      includeLocation |-> FALSE, groupBy |-> g,
      groupSort |-> [sortBy |-> "date", sortOrder |-> "asc"],
      eventSort |-> <<SortLevel("time", "asc")>>, workEventsOnly |-> w,
      searchTerm |-> term] :
        g \in {<<"none">>, <<"client">>}, w \in BOOLEAN,
        term \in {<<"Milo">>, <<"Bella">>, <<"30">>}}

SearchInit ==
    /\ ClassifierIdle
    /\ SorterIdle
    /\ GrouperIdle
    /\ CsvIdle
    /\ AnalyticsIdle
    /\ KeysIdle
    /\ AppIdle
    /\ events \in SearchLists
    /\ options \in SearchOptions
    /\ text = NoOutput
    /\ csv = NoOutput
    /\ xpc = "start"

(* The same calls on lists in which some event's start or end is a value *)
(* new Date cannot parse: the event's timestamp is then NaN.  Every order *)
(* of every list is an input, since a comparator that answers NaN leaves  *)
(* the sorted order dependent on the order the events arrive in.          *)
BadDateShapes ==
    {<<<<"Milo", "30">>, At(20421, 9, 0), At(20421, 9, 30), "dropin">>,
     <<<<"Bella", "30">>, At(20422, 12, 0), At(20422, 12, 30), "dropin">>,
     <<<<"Bella", "HS">>, At(20421, 18, 0), At(20423, 8, 0), "overnight">>,
     <<<<"Milo", "30">>, NaN, At(20422, 9, 30), "dropin">>,
     <<<<"Milo", "30">>, At(20422, 9, 0), NaN, "dropin">>,
     <<<<"lunch">>, NaN, NaN, "other">>,
     <<<<"Bella", "HS">>, NaN, At(20423, 8, 0), "overnight">>,
     <<<<"Bella", "HS">>, At(20421, 18, 0), NaN, "overnight">>}

BadDateLists ==
    UNION {{[i \in 1..k |-> EventOfShape(i, f[i])] :
            f \in [1..k -> BadDateShapes]} : k \in 0..MaxEvents}

BadDateOptions ==
    {[startDate |-> r[1], endDate |-> r[2], includeTime |-> TRUE,
      includeLocation |-> FALSE, groupBy |-> g,
      groupSort |-> [sortBy |-> "date", sortOrder |-> "asc"],
      eventSort |-> es, workEventsOnly |-> w] :
        r \in DateRanges,
        g \in {<<"date">>, <<"none">>, <<"week", "service">>},
        es \in {<<SortLevel("time", "asc")>>, <<SortLevel("service", "desc")>>},
        w \in BOOLEAN}

BadDateInit ==
    /\ ClassifierIdle
    /\ SorterIdle
    /\ GrouperIdle
    /\ CsvIdle
    /\ AnalyticsIdle
    /\ KeysIdle
    /\ AppIdle
    /\ events \in BadDateLists
    /\ options \in BadDateOptions
    /\ text = NoOutput
    /\ csv = NoOutput
    /\ xpc = "start"

ReportNext == GenerateTextList \/ GenerateCSV

----------------------------------------------------------------------------
(* CSV field escaping.  Here a string is the sequence of its characters. *)

Quote == "\""
Comma == ","
LineFeed == "\n"

Includes(str, ch) == \E i \in 1..Len(str) : str[i] = ch

(* value.replace(/"/g, '""') *)
RECURSIVE DoubleQuotes(_)
DoubleQuotes(str) ==
    IF str = <<>> THEN <<>>
    ELSE (IF Head(str) = Quote THEN <<Quote, Quote>> ELSE <<Head(str)>>)
             \o DoubleQuotes(Tail(str))

(* Variant of escapeCSV that wraps the value without doubling its quotes. *)
escapeCSVNoDoubling(str) ==
    IF str = <<>> THEN <<>>
    ELSE IF Includes(str, Comma) \/ Includes(str, Quote) \/ Includes(str, LineFeed)
         THEN <<Quote>> \o str \o <<Quote>>
    ELSE str

escapeCSV(str) ==
    IF str = <<>> THEN <<>>
    ELSE IF Includes(str, Comma) \/ Includes(str, Quote) \/ Includes(str, LineFeed)
         THEN <<Quote>> \o DoubleQuotes(str) \o <<Quote>>
    ELSE str

(* csv += `${date},${time},${client},...\n` with the escaped field between *)
(* two plain ones                                                          *)
CsvRow(field) == <<"a", Comma>> \o field \o <<Comma, "a", LineFeed>>

----------------------------------------------------------------------------
(* Escaping session: a caller escapes one field value. *)

MaxFieldLen == 4

CsvChars == {"a", Comma, Quote, LineFeed, "\r"}

CsvInit ==
    /\ ClassifierIdle
    /\ SorterIdle
    /\ GrouperIdle
    /\ ReportIdle
    /\ AnalyticsIdle
    /\ KeysIdle
    /\ AppIdle
    /\ events = <<>>
    /\ value \in SeqUpTo(CsvChars, MaxFieldLen)
    /\ escaped = <<>>
    /\ xpc = "start"

EscapeField ==
    /\ xpc = "start"
    /\ escaped' = escapeCSV(value)
    /\ xpc' = "escaped"
    /\ UNCHANGED <<events, value>>
    /\ UNCHANGED <<appVars, classifierVars, sorterVars, grouperVars, reportVars, analyticsVars, keyVars>>

CsvNext == EscapeField

----------------------------------------------------------------------------
(* Analytics page: renderAnalytics selects the events of the current      *)
(* period from the application state and hands them to the charts.  An     *)
(* event may carry a pre-computed isWorkEvent property.                    *)

Bool(b) == [kind |-> "boolean", b |-> b]

(* event[name], undefined when the event has no such property *)
Prop(event, name) ==
    IF name \in DOMAIN event THEN event[name] ELSE Undefined

WithProp(event, name, v) ==
    [f \in DOMAIN event \cup {name} |-> IF f = name THEN v ELSE event[f]]

(* getDateRange('month'): first minute and last minute of now's month *)
MonthStart(now) ==
    LET c == CivilOf(DayOf(now)) IN DaysFromCivil(c.y, c.m, 1) * MinutesPerDay
MonthEnd(now) ==
    LET c == CivilOf(DayOf(now))
        next == IF c.m = 12 THEN DaysFromCivil(c.y + 1, 1, 1)
                ELSE DaysFromCivil(c.y, c.m + 1, 1)
    IN next * MinutesPerDay - 1

(* Variant of the work-only filter that trusts a pre-computed flag. *)
PassesWorkOnlyCached(event) ==
    IF Prop(event, "isWorkEvent").kind = "boolean"
    THEN Prop(event, "isWorkEvent").b
    ELSE isWorkEvent(event.title).value

(* events.filter(event => this.eventProcessor.isWorkEvent(event.title)) *)
PassesWorkOnly(event) == isWorkEvent(event.title).value

renderAnalytics(stateEvents, now, workOnly) ==
    LET inRange == SelectSeq(stateEvents, LAMBDA e :
                       /\ ~ (e.ignored \/ e.isAllDay)
                       /\ e.start >= MonthStart(now)
                       /\ e.start <= MonthEnd(now))
        shown == IF workOnly
                 THEN SelectSeq(inRange, LAMBDA e : PassesWorkOnly(e))
                 ELSE inRange
    IN IF shown = <<>> THEN [view |-> "empty", events |-> <<>>]
       ELSE [view |-> "charts", events |-> shown]

Today == At(20421, 12, 0)

AnalyticsShapes ==
    {<<<<"Bella", "30">>, At(20421, 9, 0)>>,
     <<<<"lunch">>, At(20422, 12, 0)>>,
     <<<<"Milo", "45">>, At(20423, 9, 0)>>}

CachedFlags == {Undefined, Bool(TRUE), Bool(FALSE)}

AnalyticsEvent(i, shape, cached) ==
    LET e == Event(i, Str(shape[1]), shape[2], shape[2] + 30, "dropin") IN
    IF cached = Undefined THEN e ELSE WithProp(e, "isWorkEvent", cached)

AnalyticsLists ==
    UNION {{[i \in 1..k |-> AnalyticsEvent(i, f[i][1], f[i][2])] :
            f \in [1..k -> AnalyticsShapes \X CachedFlags]} : k \in 0..MaxEvents}

AnalyticsInit ==
    /\ ClassifierIdle
    /\ SorterIdle
    /\ GrouperIdle
    /\ ReportIdle
    /\ CsvIdle
    /\ KeysIdle
    /\ AppIdle
    /\ events \in AnalyticsLists
    /\ workOnlyMode \in BOOLEAN
    /\ analysed = NoView
    /\ xpc = "start"

RenderAnalytics ==
    /\ xpc = "start"
    /\ analysed' = renderAnalytics(events, Today, workOnlyMode)
    /\ xpc' = "rendered"
    /\ UNCHANGED <<events, workOnlyMode>>
    /\ UNCHANGED <<appVars, classifierVars, sorterVars, grouperVars, reportVars, csvVars,
                   keyVars>>

AnalyticsNext == RenderAnalytics

----------------------------------------------------------------------------
(* Group key session: renderNestedGroups hands the keys of a date, week or *)
(* month level to sortGroupKeys with the group sort configuration.         *)

MaxKeys == 3

(* 2025-11-29, 2025-12-01, 2025-12-09, 2026-01-05, 2026-02-02 *)
KeyDays == {20421, 20423, 20431, 20458, 20486}

DateGroupTypes == {"date", "week", "month"}

KeysOfType(groupType) ==
    {getGroupKey(Event(1, Str(<<"Bella", "30">>), At(d, 9, 0), At(d, 9, 30),
                       "dropin"), groupType) : d \in KeyDays}

(* The keys of a Map are distinct. *)
KeyLists(groupType) ==
    {ks \in SeqUpTo(KeysOfType(groupType), MaxKeys) :
        \A i, j \in 1..Len(ks) : i # j => ks[i] # ks[j]}

KeySortInit ==
    /\ ClassifierIdle
    /\ SorterIdle
    /\ GrouperIdle
    /\ ReportIdle
    /\ CsvIdle
    /\ AnalyticsIdle
    /\ AppIdle
    /\ events = <<>>
    /\ keySort \in [groupType : DateGroupTypes, sortBy : {"date", "alpha", "client"},
                    sortOrder : SortOrders]
    /\ groupKeys \in KeyLists(keySort.groupType)
    /\ keysOut = <<>>
    /\ xpc = "start"

SortGroupKeys ==
    /\ xpc = "start"
    /\ keysOut' = sortGroupKeys(groupKeys, keySort.groupType, keySort.sortBy,
                                keySort.sortOrder)
    /\ xpc' = "keysSorted"
    /\ UNCHANGED <<events, groupKeys, keySort>>
    /\ UNCHANGED <<appVars, classifierVars, sorterVars, grouperVars, reportVars, csvVars,
                   analyticsVars>>

KeySortNext == SortGroupKeys

----------------------------------------------------------------------------
(* Classification session: a caller classifies a title or an event, the   *)
(* operator appends a parenthetical note to the title, and the caller     *)
(* classifies again.                                                      *)

StringArgs == {Str(t) : t \in Titles}
OddTitles == {Null, Undefined, Str(<<>>), Num(30), Num(0), NoTitleObj}
ClassifierInputs ==
    StringArgs \cup {Obj(a) : a \in StringArgs} \cup OddTitles
        \cup {Obj(v) : v \in OddTitles}

HasStringTitle(arg) == TitleOf(arg).kind = "string"

WithNote(arg, note) ==
    LET toks == TitleOf(arg).toks \o <<"(">> \o note \o <<")">> IN
    IF arg.kind = "string" THEN Str(toks) ELSE Obj(Str(toks))

ClassifierInit ==
    /\ ExporterIdle
    /\ AppIdle
    /\ input \in ClassifierInputs
    /\ result = NotRun
    /\ prev = NotRun
    /\ cpc = "start"

Classify ==
    /\ cpc \in {"start", "annotated"}
    /\ result' = isWorkEvent(input)
    /\ cpc' = IF cpc = "start" THEN "classified" ELSE "reclassified"
    /\ UNCHANGED <<input, prev>>
    /\ UNCHANGED <<exporterVars, appVars>>

Annotate ==
    /\ cpc = "classified"
    /\ HasStringTitle(input)
    /\ Len(TitleOf(input).toks) < MaxTitleLen  \* keeps the annotated titles small
    /\ \E note \in Notes :
        /\ input' = WithNote(input, note)
        /\ prev' = [base |-> TitleOf(input).toks, note |-> note,
                    outcome |-> result]
    /\ cpc' = "annotated"
    /\ UNCHANGED result
    /\ UNCHANGED <<exporterVars, appVars>>

ClassifierNext == Classify \/ Annotate

----------------------------------------------------------------------------
(* Title functions called on one event.  title.replace and                *)
(* title.toLowerCase exist on strings only: on any other value that is    *)
(* not falsy the call throws a TypeError.                                 *)

HasNoStringMethods(v) == ~ Falsy(v) /\ v.kind # "string"

(* extractClientName(event.title), with the exception it can raise *)
CallExtractClientName(event) ==
    IF HasNoStringMethods(event.title) THEN TypeError
    ELSE Returned(extractClientName(event.title))

(* formatServiceType(event): title.toLowerCase() runs first *)
CallFormatServiceType(event) ==
    IF HasNoStringMethods(event.title) THEN TypeError
    ELSE Returned(formatServiceType(event))

(* isEndOvernightMarker(event) *)
CallIsEndOvernightMarker(event) ==
    IF HasNoStringMethods(event.title) THEN TypeError
    ELSE Returned(isEndOvernightMarker(event))

TitleWords == {"Bella", "30", "HS", "MG", "end", "nail", "trim", "-", "en-dash"}
EventTitles ==
    {Str(t) : t \in SeqUpTo(TitleWords, MaxTitleLen)}
        \cup {Null, Undefined, Num(0), Num(42), NoTitleObj}
EventTypes == {"dropin", "walk", "overnight"}
EventEnds == {At(20421, 18, 30), At(20423, 8, 0)}

TitleInit ==
    /\ ExporterIdle
    /\ AppIdle
    /\ input \in {Event(1, t, At(20421, 18, 0), e, ty) :
                     t \in EventTitles, e \in EventEnds, ty \in EventTypes}
    /\ result = NotRun
    /\ prev = NotRun
    /\ cpc = "start"

ExtractClientName ==
    /\ cpc = "start"
    /\ result' = CallExtractClientName(input)
    /\ cpc' = "named"
    /\ UNCHANGED <<input, prev>>
    /\ UNCHANGED <<exporterVars, appVars>>

FormatServiceType ==
    /\ cpc = "start"
    /\ result' = CallFormatServiceType(input)
    /\ cpc' = "typed"
    /\ UNCHANGED <<input, prev>>
    /\ UNCHANGED <<exporterVars, appVars>>

IsEndOvernightMarker ==
    /\ cpc = "start"
    /\ result' = CallIsEndOvernightMarker(input)
    /\ cpc' = "marked"
    /\ UNCHANGED <<input, prev>>
    /\ UNCHANGED <<exporterVars, appVars>>

TitleNext == ExtractClientName \/ FormatServiceType \/ IsEndOvernightMarker

----------------------------------------------------------------------------
(* Appointment templates (TemplatesManager).  A template is kept by its id, *)
(* its name and its isDefault flag; generateId is modelled by a counter,    *)
(* so every id it hands out is new.  The timestamps createdAt and updatedAt *)
(* are left out.                                                            *)

Template(id, name, isDefault) == [id |-> id, name |-> name, isDefault |-> isDefault]

DefaultNames ==
    <<"Overnight Stay", "30-Minute Drop-in", "1-Hour Dog Walk", "Meet & Greet">>

(* getDefaultTemplates called when firstId - 1 ids have been handed out *)
getDefaultTemplates(firstId) ==
    [i \in 1..Len(DefaultNames) |-> Template(firstId + i - 1, DefaultNames[i], TRUE)]

(* this.templates.findIndex(t => t.id === id) + 1, 0 when there is none *)
FindIndex(list, id) ==
    IF \E i \in 1..Len(list) : list[i].id = id
    THEN CHOOSE i \in 1..Len(list) :
             list[i].id = id /\ \A j \in 1..(i - 1) : list[j].id # id
    ELSE 0

(* { ...a, ...b } *)
Spread(a, b) ==
    [k \in DOMAIN a \cup DOMAIN b |-> IF k \in DOMAIN b THEN b[k] ELSE a[k]]

(* A key of an object read as a truthy or falsy value; absent is falsy. *)
Flag(t, key) == key \in DOMAIN t /\ t[key]

TemplateIds == 0..MaxTemplateIds
NewNames == {"Puppy Visit"}

(* The update objects a caller passes: the fields of the edit form, or the *)
(* default flag.                                                            *)
TemplateUpdates ==
    {[name |-> "Puppy Visit"], [isDefault |-> FALSE]}

(* What JSON.parse gives for the strings handed to importTemplates: a     *)
(* syntax error, a value that is no array, or an array of templates.      *)
ImportedLists ==
    {<<>>,
     <<Template(1, "Puppy Visit", FALSE)>>,
     <<Template(9, "Puppy Visit", FALSE), Template(2, "Puppy Visit", TRUE)>>}
Imports ==
    {[kind |-> "syntaxError"], [kind |-> "object"]}
        \cup {[kind |-> "array", items |-> l] : l \in ImportedLists}

(* new TemplatesManager() with nothing saved in localStorage *)
TemplateInit ==
    /\ ClassifierIdle
    /\ ExporterIdle
    /\ DialogIdle
    /\ SessionIdle
    /\ WizardIdle
    /\ PreviewIdle
    /\ templates = getDefaultTemplates(1)
    /\ tplNextId = Len(DefaultNames)
    /\ tplOutcome = "none"

CreateTemplate ==
    /\ Len(templates) < MaxTemplates
    /\ tplNextId < MaxTemplateIds
    /\ \E name \in NewNames :
          templates' = Append(templates, Template(tplNextId + 1, name, FALSE))
    /\ tplNextId' = tplNextId + 1
    /\ tplOutcome' = "returned"
    /\ UNCHANGED besidesTemplates

UpdateTemplate ==
    /\ \E id \in TemplateIds, updates \in TemplateUpdates :
          LET index == FindIndex(templates, id) IN
          IF index = 0
          THEN tplOutcome' = "threw" /\ UNCHANGED templates
          ELSE /\ templates' = [templates EXCEPT ![index] =
                                   Spread(Spread(@, updates), [id |-> id])]
               /\ tplOutcome' = "returned"
    /\ UNCHANGED tplNextId
    /\ UNCHANGED besidesTemplates

DeleteTemplate ==
    /\ \E id \in TemplateIds :
          LET index == FindIndex(templates, id) IN
          IF index = 0 \/ Flag(templates[index], "isDefault")
          THEN tplOutcome' = "threw" /\ UNCHANGED templates
          ELSE /\ templates' = SelectSeq(templates, LAMBDA t : t.id # id)
               /\ tplOutcome' = "returned"
    /\ UNCHANGED tplNextId
    /\ UNCHANGED besidesTemplates

DuplicateTemplate ==
    /\ Len(templates) < MaxTemplates
    /\ tplNextId < MaxTemplateIds
    /\ \E id \in TemplateIds :
          LET index == FindIndex(templates, id) IN
          IF index = 0
          THEN tplOutcome' = "threw" /\ UNCHANGED <<templates, tplNextId>>
          ELSE /\ templates' = Append(templates,
                       Spread(templates[index],
                              [id |-> tplNextId + 1, name |-> "Copy",
                               isDefault |-> FALSE]))
               /\ tplNextId' = tplNextId + 1
               /\ tplOutcome' = "returned"
    /\ UNCHANGED besidesTemplates

(* The templates importTemplates pushes when it merges: each gets a new id *)
(* and is no default.                                                      *)
Merged(items, firstId) ==
    [i \in 1..Len(items) |->
        Spread(items[i], [id |-> firstId + i - 1, isDefault |-> FALSE])]

ImportTemplates ==
    /\ \E imported \in Imports, replace \in BOOLEAN :
          IF imported.kind # "array"
          THEN tplOutcome' = "threw" /\ UNCHANGED <<templates, tplNextId>>
          ELSE IF replace
          THEN /\ templates' =
                     SelectSeq(templates, LAMBDA t : Flag(t, "isDefault"))
                         \o SelectSeq(imported.items,
                                      LAMBDA t : ~ Flag(t, "isDefault"))
               /\ Len(templates') <= MaxTemplates
               /\ tplOutcome' = "returned"
               /\ UNCHANGED tplNextId
          ELSE /\ Len(templates) + Len(imported.items) <= MaxTemplates
               /\ tplNextId + Len(imported.items) <= MaxTemplateIds
               /\ templates' = templates \o Merged(imported.items, tplNextId + 1)
               /\ tplNextId' = tplNextId + Len(imported.items)
               /\ tplOutcome' = "returned"
    /\ UNCHANGED besidesTemplates

TemplateNext ==
    \/ CreateTemplate
    \/ UpdateTemplate
    \/ DeleteTemplate
    \/ DuplicateTemplate
    \/ ImportTemplates

----------------------------------------------------------------------------
(* Group levels of the export dialog.  The container's children are kept  *)
(* in display order; of each .group-level the model keeps its data-level,  *)
(* the number its label shows, the data-level of its remove button and of  *)
(* its move buttons (0 when it has none), and what updateGroupLevelButtons *)
(* sets.  The select carries the same data-level as the div and its value  *)
(* plays no part in the numbering.                                         *)

MaxDialogLevels == 4

GroupDiv(n, moveLevel) ==
    [level |-> n, label |-> n, removeLevel |-> n, moveLevel |-> moveLevel,
     removeShown |-> FALSE, moveShown |-> FALSE,
     upDisabled |-> FALSE, downDisabled |-> FALSE]

updateGroupLevelButtons(divs) ==
    [i \in 1..Len(divs) |->
        LET d == [divs[i] EXCEPT !.removeShown = Len(divs) > 1] IN
        IF d.moveLevel = 0 THEN d
        ELSE [d EXCEPT !.moveShown = Len(divs) > 1,
                       !.upDisabled = (i = 1),
                       !.downDisabled = (i = Len(divs))]]

(* container.querySelector('.group-level[data-level="level"]'), 0 if none *)
FirstAtLevel(divs, level) ==
    IF \E i \in 1..Len(divs) : divs[i].level = level
    THEN CHOOSE i \in 1..Len(divs) :
             divs[i].level = level /\ \A j \in 1..(i - 1) : divs[j].level # level
    ELSE 0

RemoveAt(divs, i) ==
    IF i = 0 THEN divs
    ELSE SubSeq(divs, 1, i - 1) \o SubSeq(divs, i + 1, Len(divs))

(* The renumbering loop of reorderGroupLevel. *)
Renumbered(divs) ==
    [i \in 1..Len(divs) |->
        [divs[i] EXCEPT !.level = i, !.label = i, !.removeLevel = i,
                        !.moveLevel = IF @ = 0 THEN 0 ELSE i]]

Swap(divs, i, j) == [divs EXCEPT ![i] = divs[j], ![j] = divs[i]]

(* showExportModal: resetGroupLevels leaves one level without move buttons *)
DialogInit ==
    /\ ClassifierIdle
    /\ ExporterIdle
    /\ TemplatesIdle
    /\ SessionIdle
    /\ WizardIdle
    /\ PreviewIdle
    /\ groupDivs = updateGroupLevelButtons(<<GroupDiv(1, 0)>>)
    /\ addDisabled = FALSE
    /\ dlgOutcome = "none"

(* click on the add button: addGroupLevel *)
AddGroupLevel ==
    /\ ~ addDisabled
    /\ LET newLevel == Len(groupDivs) + 1 IN
       IF newLevel > MaxDialogLevels
       THEN UNCHANGED <<groupDivs, addDisabled>>
       ELSE /\ groupDivs' = updateGroupLevelButtons(
                                Append(groupDivs, GroupDiv(newLevel, newLevel)))
            /\ addDisabled' = (newLevel >= MaxDialogLevels)
    /\ dlgOutcome' = "returned"
    /\ UNCHANGED besidesDialog

(* click on a remove button: removeGroupLevel(its data-level).  No level   *)
(* holds a .group-level-sort element, so the renumbering loop fails on the *)
(* first remaining level, after it has set that level's data-level, label  *)
(* and select, and updateGroupLevelButtons is not reached.                 *)
RemoveGroupLevel ==
    /\ \E b \in 1..Len(groupDivs) :
          /\ groupDivs[b].removeShown
          /\ LET level == groupDivs[b].removeLevel IN
             IF Len(groupDivs) <= 1
             THEN dlgOutcome' = "returned" /\ UNCHANGED groupDivs
             ELSE LET remaining ==
                          RemoveAt(groupDivs, FirstAtLevel(groupDivs, level))
                  IN /\ groupDivs' = [remaining EXCEPT ![1].level = 1,
                                                        ![1].label = 1]
                     /\ dlgOutcome' = "threw"
    /\ UNCHANGED addDisabled
    /\ UNCHANGED besidesDialog

(* click on a move button: reorderGroupLevel(its data-level, direction) *)
ReorderGroupLevel ==
    /\ \E b \in 1..Len(groupDivs), direction \in {"up", "down"} :
          /\ groupDivs[b].moveLevel # 0
          /\ groupDivs[b].moveShown
          /\ ~ (IF direction = "up" THEN groupDivs[b].upDisabled
                ELSE groupDivs[b].downDisabled)
          /\ LET currentIndex == FirstAtLevel(groupDivs, groupDivs[b].moveLevel)
                 targetIndex == IF direction = "up" THEN currentIndex - 1
                                ELSE currentIndex + 1
             IN IF currentIndex = 0 \/ targetIndex < 1 \/ targetIndex > Len(groupDivs)
                THEN UNCHANGED <<groupDivs, addDisabled>>
                ELSE /\ groupDivs' = updateGroupLevelButtons(
                            Renumbered(Swap(groupDivs, currentIndex, targetIndex)))
                     /\ addDisabled' = (Len(groupDivs) >= MaxDialogLevels)
    /\ dlgOutcome' = "returned"
    /\ UNCHANGED besidesDialog

DialogNext == AddGroupLevel \/ RemoveGroupLevel \/ ReorderGroupLevel

----------------------------------------------------------------------------
(* Calendar session: automatic authentication at start-up and the loading  *)
(* of calendar events.  Every await is a step of its own that the awaited  *)
(* call ends by resolving or by rejecting.  state.events and the events    *)
(* cache are kept by where their content came from.                        *)

(* The constructor's state with nothing saved, and init() up to the call of *)
(* attemptAutoAuthentication.                                               *)
SessionInit ==
    /\ ClassifierIdle
    /\ ExporterIdle
    /\ TemplatesIdle
    /\ DialogIdle
    /\ WizardIdle
    /\ PreviewIdle
    /\ isAuthenticated = FALSE
    /\ useMockData = TRUE
    /\ apiSetup \in [configured : BOOLEAN, hasToken : BOOLEAN]
    /\ cacheFresh \in BOOLEAN
    /\ appEvents = "mock"
    /\ eventsCache = IF cacheFresh THEN "saved" ELSE "none"
    /\ fetches = {}
    /\ autoPc = "start"
    /\ failedStep = "none"
    /\ logoutPc = "idle"

(* The catch block of attemptAutoAuthentication: it only logs. *)
AutoCaught(step) ==
    /\ autoPc' = "caught"
    /\ failedStep' = step

(* attemptAutoAuthentication up to await this.calendarApi.init() *)
AutoStart ==
    /\ autoPc = "start"
    /\ autoPc' = IF apiSetup.configured THEN "init" ELSE "skipped"
    /\ UNCHANGED <<isAuthenticated, useMockData, apiSetup, cacheFresh, appEvents,
                   eventsCache, fetches, failedStep>>
    /\ UNCHANGED <<logoutPc, besidesSession>>

(* init() settles; on success the token check and await authenticate() *)
AutoInitSettles ==
    /\ autoPc = "init"
    /\ \E ok \in BOOLEAN :
          IF ok
          THEN /\ autoPc' = IF apiSetup.hasToken THEN "authenticate" ELSE "skipped"
               /\ UNCHANGED failedStep
          ELSE AutoCaught("init")
    /\ UNCHANGED <<isAuthenticated, useMockData, apiSetup, cacheFresh, appEvents,
                   eventsCache, fetches>>
    /\ UNCHANGED <<logoutPc, besidesSession>>

(* authenticate() settles; on success the flags are set and listCalendars *)
(* is awaited                                                             *)
AutoAuthenticateSettles ==
    /\ autoPc = "authenticate"
    /\ \E ok \in BOOLEAN :
          IF ok
          THEN /\ isAuthenticated' = TRUE
               /\ useMockData' = FALSE
               /\ autoPc' = "list"
               /\ UNCHANGED failedStep
          ELSE /\ AutoCaught("authenticate")
               /\ UNCHANGED <<isAuthenticated, useMockData>>
    /\ UNCHANGED <<apiSetup, cacheFresh, appEvents, eventsCache, fetches>>
    /\ UNCHANGED <<logoutPc, besidesSession>>

(* listCalendars() settles; on success the cached events are shown and the *)
(* view rendered, or loadCalendarEvents() is awaited, which with no valid   *)
(* cache asks the calendar                                                  *)
AutoListSettles ==
    /\ autoPc = "list"
    /\ \E ok \in BOOLEAN :
          IF ~ ok
          THEN AutoCaught("list") /\ UNCHANGED <<appEvents, fetches>>
          ELSE IF cacheFresh
          THEN /\ appEvents' = "cache"
               /\ autoPc' = "renderCached"
               /\ UNCHANGED <<fetches, failedStep>>
          ELSE IF ~ isAuthenticated
          THEN AutoCaught("load") /\ UNCHANGED <<appEvents, fetches>>
          ELSE /\ fetches' = fetches \cup {"auto"}
               /\ autoPc' = "load"
               /\ UNCHANGED <<appEvents, failedStep>>
    /\ UNCHANGED <<isAuthenticated, useMockData, apiSetup, cacheFresh, eventsCache>>
    /\ UNCHANGED <<logoutPc, besidesSession>>

(* What a loadCalendarEvents call does when loadEventsFromCalendars has *)
(* resolved.                                                            *)
StoreFetched(fetch) ==
    /\ appEvents' = fetch
    /\ eventsCache' = fetch
    /\ cacheFresh' = TRUE

(* The calendar answers the loadCalendarEvents call awaited at start-up. *)
AutoLoadSettles ==
    /\ autoPc = "load"
    /\ "auto" \in fetches
    /\ fetches' = fetches \ {"auto"}
    /\ \E ok \in BOOLEAN :
          IF ok
          THEN StoreFetched("auto") /\ autoPc' = "render" /\ UNCHANGED failedStep
          ELSE AutoCaught("load") /\ UNCHANGED <<appEvents, eventsCache, cacheFresh>>
    /\ UNCHANGED <<isAuthenticated, useMockData, apiSetup>>
    /\ UNCHANGED <<logoutPc, besidesSession>>

(* renderCurrentView() resolves after fresh events were loaded *)
AutoRendered ==
    /\ autoPc = "render"
    /\ autoPc' = "done"
    /\ UNCHANGED <<isAuthenticated, useMockData, apiSetup, cacheFresh, appEvents,
                   eventsCache, fetches, failedStep>>
    /\ UNCHANGED <<logoutPc, besidesSession>>

(* renderCurrentView() resolves after the cached events were shown: the     *)
(* background loadCalendarEvents() is started and not awaited; it takes the *)
(* cache again if that is still valid.                                      *)
AutoRenderedCached ==
    /\ autoPc = "renderCached"
    /\ autoPc' = "done"
    /\ IF ~ isAuthenticated THEN UNCHANGED <<appEvents, fetches>>
       ELSE IF cacheFresh THEN appEvents' = "cache" /\ UNCHANGED fetches
       ELSE fetches' = fetches \cup {"background"} /\ UNCHANGED appEvents
    /\ UNCHANGED <<isAuthenticated, useMockData, apiSetup, cacheFresh, eventsCache,
                   failedStep>>
    /\ UNCHANGED <<logoutPc, besidesSession>>

(* The cache passes its 15 minutes of validity. *)
CacheExpires ==
    /\ cacheFresh
    /\ cacheFresh' = FALSE
    /\ UNCHANGED <<isAuthenticated, useMockData, apiSetup, appEvents, eventsCache,
                   fetches, autoPc, failedStep>>
    /\ UNCHANGED <<logoutPc, besidesSession>>

(* The calendar answers the background refresh. *)
BackgroundLoadSettles ==
    /\ "background" \in fetches
    /\ fetches' = fetches \ {"background"}
    /\ \E ok \in BOOLEAN :
          IF ok THEN StoreFetched("background")
          ELSE UNCHANGED <<appEvents, eventsCache, cacheFresh>>
    /\ UNCHANGED <<isAuthenticated, useMockData, apiSetup, autoPc, failedStep>>
    /\ UNCHANGED <<logoutPc, besidesSession>>

(* handleCalendarRefresh up to await this.loadCalendarEvents(true), which *)
(* bypasses the cache.                                                    *)
HandleCalendarRefresh ==
    /\ isAuthenticated
    /\ "refresh" \notin fetches
    /\ fetches' = fetches \cup {"refresh"}
    /\ UNCHANGED <<isAuthenticated, useMockData, apiSetup, cacheFresh, appEvents,
                   eventsCache, autoPc, failedStep, logoutPc>>
    /\ UNCHANGED besidesSession

(* The calendar answers the manual refresh; a rejection is caught and shown. *)
RefreshLoadSettles ==
    /\ "refresh" \in fetches
    /\ fetches' = fetches \ {"refresh"}
    /\ \E ok \in BOOLEAN :
          IF ok THEN StoreFetched("refresh")
          ELSE UNCHANGED <<appEvents, eventsCache, cacheFresh>>
    /\ UNCHANGED <<isAuthenticated, useMockData, apiSetup, autoPc, failedStep,
                   logoutPc>>
    /\ UNCHANGED besidesSession

(* handleLogout up to await this.renderCurrentView(): state.events is not *)
(* empty, so initMockData leaves it as it is.                             *)
HandleLogout ==
    /\ isAuthenticated
    /\ logoutPc = "idle"
    /\ \E confirmed \in BOOLEAN :
          IF confirmed
          THEN /\ isAuthenticated' = FALSE
               /\ useMockData' = TRUE
               /\ logoutPc' = "render"
          ELSE UNCHANGED <<isAuthenticated, useMockData, logoutPc>>
    /\ UNCHANGED <<apiSetup, cacheFresh, appEvents, eventsCache, fetches, autoPc,
                   failedStep>>
    /\ UNCHANGED besidesSession

(* renderCurrentView() settles and handleLogout ends, by its last alert or *)
(* in its catch block.                                                     *)
LogoutRendered ==
    /\ logoutPc = "render"
    /\ logoutPc' = "done"
    /\ UNCHANGED <<isAuthenticated, useMockData, apiSetup, cacheFresh, appEvents,
                   eventsCache, fetches, autoPc, failedStep>>
    /\ UNCHANGED besidesSession

SessionNext ==
    \/ AutoStart
    \/ AutoInitSettles
    \/ AutoAuthenticateSettles
    \/ AutoListSettles
    \/ AutoLoadSettles
    \/ AutoRendered
    \/ AutoRenderedCached
    \/ CacheExpires
    \/ BackgroundLoadSettles
    \/ HandleCalendarRefresh
    \/ RefreshLoadSettles
    \/ HandleLogout
    \/ LogoutRendered

----------------------------------------------------------------------------
(* Multi-event wizard: its step counter, the previewed events, the click   *)
(* listeners renderMultiEventTimeline leaves on the preview container, and *)
(* createMultiEvents with its await as a step of its own.  Events are kept *)
(* by the number generateMultiDayEvents gave them.                         *)

MaxStep == 5
MaxPending == 2
MaxEventIds == 3
MaxListeners == 4
MaxInvocations == 2

Arr(items) == [kind |-> "array", items |-> items]

(* setupTimelineInteractions, called at the end of every rendering: one *)
(* more click listener on the container, which is never replaced.       *)
setupTimelineInteractions(listeners) == listeners + 1

(* renderMultiEventTimeline returns at once when nothing is pending. *)
renderMultiEventTimeline(pending, listeners) ==
    IF pending = Null THEN listeners ELSE setupTimelineInteractions(listeners)

(* deleteMultiEventFromPreview as the listeners from number k on call it, *)
(* one after the other, each with the index the clicked button carries.   *)
RECURSIVE deleteMultiEventFromPreview(_, _, _, _)
deleteMultiEventFromPreview(items, index, confirms, k) ==
    IF k > Len(confirms) THEN [items |-> items, removed |-> 0]
    ELSE IF index > Len(items) \/ ~ confirms[k]
    THEN deleteMultiEventFromPreview(items, index, confirms, k + 1)
    ELSE LET rest == deleteMultiEventFromPreview(RemoveAt(items, index), index,
                                                 confirms, k + 1)
         IN [items |-> rest.items, removed |-> rest.removed + 1]

WizardInit ==
    /\ ClassifierIdle
    /\ ExporterIdle
    /\ TemplatesIdle
    /\ DialogIdle
    /\ SessionIdle
    /\ PreviewIdle
    /\ multiEventCurrentStep = 1
    /\ pendingMultiEvents = Null
    /\ storedEvents = <<>>
    /\ nextEventId = 0
    /\ previewListeners = 0
    /\ removedByClick = 0
    /\ creators = [i \in 1..MaxInvocations |-> "idle"]

ShowMultiEventModal ==
    /\ multiEventCurrentStep' = 1
    /\ UNCHANGED <<pendingMultiEvents, storedEvents, nextEventId, previewListeners,
                   removedByClick, creators>>
    /\ UNCHANGED besidesWizard

(* generateMultiEventPreview: generateMultiDayEvents makes new events, they *)
(* are stored as pending and the timeline is rendered.                      *)
GenerateMultiEventPreview ==
    \E n \in 1..MaxPending :
        /\ nextEventId + n <= MaxEventIds
        /\ previewListeners < MaxListeners
        /\ pendingMultiEvents' = Arr([i \in 1..n |-> nextEventId + i])
        /\ nextEventId' = nextEventId + n
        /\ previewListeners' =
              renderMultiEventTimeline(pendingMultiEvents', previewListeners)

(* validateMultiEventStep looks at the form on steps 1 and 2 only. *)
MultiEventNextStep ==
    /\ multiEventCurrentStep < MaxStep
    /\ \E valid \in BOOLEAN :
          IF multiEventCurrentStep \in {1, 2} /\ ~ valid
          THEN UNCHANGED <<multiEventCurrentStep, pendingMultiEvents, nextEventId,
                           previewListeners>>
          ELSE /\ multiEventCurrentStep' = multiEventCurrentStep + 1
               /\ IF multiEventCurrentStep' = 3
                  THEN GenerateMultiEventPreview
                  ELSE UNCHANGED <<pendingMultiEvents, nextEventId, previewListeners>>
    /\ UNCHANGED <<storedEvents, removedByClick, creators>>
    /\ UNCHANGED besidesWizard

MultiEventPrevStep ==
    /\ multiEventCurrentStep > 1
    /\ multiEventCurrentStep' = multiEventCurrentStep - 1
    /\ UNCHANGED <<pendingMultiEvents, storedEvents, nextEventId, previewListeners,
                   removedByClick, creators>>
    /\ UNCHANGED besidesWizard

(* The show-all toggle of the preview renders the timeline again. *)
TogglePreviewShowAll ==
    /\ pendingMultiEvents # Null
    /\ previewListeners < MaxListeners
    /\ previewListeners' = renderMultiEventTimeline(pendingMultiEvents, previewListeners)
    /\ UNCHANGED <<multiEventCurrentStep, pendingMultiEvents, storedEvents, nextEventId,
                   removedByClick, creators>>
    /\ UNCHANGED besidesWizard

(* One click on the delete button of a previewed event: every listener on *)
(* the container runs, each asks for confirmation, and each confirmed     *)
(* removal renders the timeline again.                                    *)
ClickDelete ==
    /\ pendingMultiEvents # Null
    /\ previewListeners >= 1
    /\ \E index \in 1..Len(pendingMultiEvents.items) :
       \E confirms \in [1..previewListeners -> BOOLEAN] :
          LET after == deleteMultiEventFromPreview(pendingMultiEvents.items, index,
                                                    confirms, 1)
          IN /\ previewListeners + after.removed <= MaxListeners
             /\ pendingMultiEvents' = Arr(after.items)
             /\ removedByClick' = after.removed
             /\ previewListeners' = previewListeners + after.removed
    /\ UNCHANGED <<multiEventCurrentStep, storedEvents, nextEventId, creators>>
    /\ UNCHANGED besidesWizard

(* createMultiEvents up to await this.renderCurrentView() *)
CreateMultiEvents ==
    \E i \in 1..MaxInvocations :
        /\ creators[i] = "idle"
        /\ IF pendingMultiEvents = Null \/ pendingMultiEvents.items = <<>>
           THEN /\ creators' = [creators EXCEPT ![i] = "returned"]
                /\ UNCHANGED storedEvents
           ELSE /\ storedEvents' = storedEvents \o pendingMultiEvents.items
                /\ creators' = [creators EXCEPT ![i] = "rendering"]
        /\ UNCHANGED <<multiEventCurrentStep, pendingMultiEvents, nextEventId,
                       previewListeners, removedByClick>>
        /\ UNCHANGED besidesWizard

(* The view is rendered and createMultiEvents goes on: it reads the length *)
(* of pendingMultiEvents, a TypeError when that is null, and clears it.    *)
CreateRendered ==
    \E i \in 1..MaxInvocations :
        /\ creators[i] = "rendering"
        /\ IF pendingMultiEvents = Null
           THEN /\ creators' = [creators EXCEPT ![i] = "threw"]
                /\ UNCHANGED pendingMultiEvents
           ELSE /\ creators' = [creators EXCEPT ![i] = "created"]
                /\ pendingMultiEvents' = Null
        /\ UNCHANGED <<multiEventCurrentStep, storedEvents, nextEventId,
                       previewListeners, removedByClick>>
        /\ UNCHANGED besidesWizard

WizardNext ==
    \/ ShowMultiEventModal
    \/ MultiEventNextStep
    \/ MultiEventPrevStep
    \/ TogglePreviewShowAll
    \/ ClickDelete
    \/ CreateMultiEvents
    \/ CreateRendered

----------------------------------------------------------------------------
(* Export preview: runs of generateExportPreview, numbered in the order    *)
(* they were requested.  A run reads the form before its only await, so    *)
(* the number of a run stands for the options it was requested with; a     *)
(* preview is kept by the run that computed it and the events it was given. *)

MaxRuns == 5

(* The tail of generateExportPreview from line 3716: the preview is built, *)
(* displayed and stored in this.exportPreview.                             *)
StorePreview(run, eventsToExport) ==
    exportPreview' = [run |-> run, events |-> eventsToExport]

PreviewInit ==
    /\ ClassifierIdle
    /\ ExporterIdle
    /\ TemplatesIdle
    /\ DialogIdle
    /\ SessionIdle
    /\ WizardIdle
    /\ requested = 0
    /\ exportRuns = {}
    /\ exportPreview = NoPreview

(* generateExportPreview, started by the debounced search input or by the *)
(* preview button, up to await fetchAllCalendarEvents, or to its end when *)
(* the loaded events cover the range or nobody is signed in.              *)
GenerateExportPreview ==
    /\ requested < MaxRuns
    /\ requested' = requested + 1
    /\ \E needsNewFetch \in BOOLEAN :
          IF needsNewFetch
          THEN /\ exportRuns' = exportRuns \cup {requested'}
               /\ UNCHANGED exportPreview
          ELSE /\ StorePreview(requested', "loaded")
               /\ UNCHANGED exportRuns
    /\ UNCHANGED besidesPreview

(* fetchAllCalendarEvents settles for one of the waiting runs, which goes *)
(* on with the fetched events or, after a rejection, the loaded ones.     *)
ExportFetchSettles ==
    /\ \E run \in exportRuns :
          /\ exportRuns' = exportRuns \ {run}
          /\ \E ok \in BOOLEAN :
                StorePreview(run, IF ok THEN "fetched" ELSE "loaded")
    /\ UNCHANGED requested
    /\ UNCHANGED besidesPreview

PreviewNext == GenerateExportPreview \/ ExportFetchSettles

SpecClassify == ClassifierInit /\ [][ClassifierNext]_vars

SpecSort == SortInit /\ [][SortNext]_vars

SpecSortUnknown == UnknownSortInit /\ [][SortNext]_vars

SpecGroup == GroupInit /\ [][GroupNext]_vars

SpecCsv == CsvInit /\ [][CsvNext]_vars

SpecReport == ReportInit /\ [][ReportNext]_vars

SpecBadDates == BadDateInit /\ [][ReportNext]_vars

SpecSearch == SearchInit /\ [][ReportNext]_vars

SpecTitle == TitleInit /\ [][TitleNext]_vars

SpecAnalytics == AnalyticsInit /\ [][AnalyticsNext]_vars

SpecKeySort == KeySortInit /\ [][KeySortNext]_vars

SpecTemplates == TemplateInit /\ [][TemplateNext]_vars

SpecDialog == DialogInit /\ [][DialogNext]_vars

SpecSession == SessionInit /\ [][SessionNext]_vars

SpecWizard == WizardInit /\ [][WizardNext]_vars

SpecPreview == PreviewInit /\ [][PreviewNext]_vars

----------------------------------------------------------------------------
(* Properties of the classifier *)

Classified == cpc \in {"classified", "reclassified"}
InputToks == TitleOf(input).toks

\* C1: every title that matches a personal pattern classifies as not work,
\* also when it matches a work pattern (duration or housesit suffix,
\* meet-and-greet marker, nail trim).
PersonalPrecedence ==
    (Classified /\ HasStringTitle(input) /\ isDefinitelyPersonal(InputToks))
        => result = Returned(FALSE)

PersonalAndWorkClassified ==
    /\ Classified
    /\ HasStringTitle(input)
    /\ isDefinitelyPersonal(InputToks)
    /\ minutesSuffix(cleanTitle(InputToks))
    /\ result = Returned(FALSE)

\* C7 as stated: appending a parenthetical note " (p)" to a title never
\* changes the value isWorkEvent returns.
ParentheticalInvariance ==
    cpc = "reclassified" => result = prev.outcome

HasUnclosedParen(toks) ==
    \E i \in 1..Len(toks) : toks[i] = "(" /\ NextClose(toks, i + 1) = 0

\* C7 amended: appending " (p)" leaves the value of isWorkEvent unchanged
\* when p holds no ")" and matches no personal pattern and the title has no
\* "(" left unclosed.
PlainNoteInvariance ==
    (/\ cpc = "reclassified"
     /\ ~ isDefinitelyPersonal(prev.note)
     /\ \A i \in 1..Len(prev.note) : prev.note[i] # ")"
     /\ ~ HasUnclosedParen(prev.base))
        => result = prev.outcome

PlainNoteOnWorkTitle ==
    /\ cpc = "reclassified"
    /\ prev.base = <<"Bella", "30">>
    /\ prev.note = <<"1st">>
    /\ prev.outcome = Returned(TRUE)
    /\ result = Returned(TRUE)

\* C10: a null, undefined, empty or non-string title, given bare or inside
\* an event object, classifies as not work and raises no error.
OddTitleIsNotWork ==
    (Classified /\ (~ HasStringTitle(input) \/ InputToks = <<>>))
        => result = Returned(FALSE)

NumericTitleClassified ==
    /\ Classified
    /\ input = Obj(Num(30))
    /\ result = Returned(FALSE)

----------------------------------------------------------------------------
(* Properties of the sorter *)

(* The value a sort level orders events by, as a sequence of numbers. *)
SortKey(e, field) ==
    CASE field = "date" -> <<e.start>>
      [] field = "time" -> <<MinuteOfDay(e.start)>>
      [] field = "client" -> NameKey(extractClientName(e.title))
      [] field = "service" -> ServiceKey(formatServiceType(e))

LevelsTie(a, b, levels) ==
    \A k \in 1..Len(levels) :
        SortKey(a, levels[k].sortBy) = SortKey(b, levels[k].sortBy)

(* a placed before b contradicts the specification: at the first level *)
(* that tells them apart, b belongs first.                             *)
OutOfOrder(a, b, levels) ==
    \E k \in 1..Len(levels) :
        /\ LevelsTie(a, b, SubSeq(levels, 1, k - 1))
        /\ LET c == CompareSeq(SortKey(a, levels[k].sortBy),
                               SortKey(b, levels[k].sortBy))
           IN IF levels[k].sortOrder = "desc" THEN c < 0 ELSE c > 0

IsPermutationOf(out, inp) ==
    /\ Len(out) = Len(inp)
    /\ \A i \in 1..Len(inp) :
           Cardinality({j \in 1..Len(out) : out[j] = inp[i]}) = 1

PosIn(arr, e) == CHOOSE j \in 1..Len(arr) : arr[j] = e

\* C3: with a non-empty sort specification the result of
\* sortEventsMultiLevel is a permutation of the input in which no two
\* adjacent events are out of order for the specification.
SortedIsOrderedPermutation ==
    (xpc \in {"sorted", "resorted"} /\ sortLevels # <<>>)
        => /\ IsPermutationOf(sorted, events)
           /\ \A i \in 1..(Len(sorted) - 1) :
                  ~ OutOfOrder(sorted[i], sorted[i + 1], sortLevels)

SortReorderedThreeEvents ==
    /\ xpc = "sorted"
    /\ Len(events) = 3
    /\ Len(sortLevels) = 2
    /\ sortLevels[1].sortBy = "time"
    /\ sortLevels[2] = SortLevel("client", "desc")
    /\ sorted[1] = events[3]
    /\ sorted[3] = events[1]

\* C4: sorting an already sorted result again with the same non-empty
\* specification returns the events in the same order.
SortIsIdempotent ==
    (xpc = "resorted" /\ sortLevels # <<>>) => resorted = sorted

ResortedAfterReordering ==
    /\ xpc = "resorted"
    /\ sortLevels # <<>>
    /\ sorted # events
    /\ resorted = sorted
    /\ \E i \in 1..(Len(sorted) - 1) :
           Comparator(sorted[i], sorted[i + 1], sortLevels) = 0

\* C8 as stated: when all sort levels compare two distinct events as
\* equal, the comparator never returns zero.
ComparatorNeverZero ==
    xpc = "sorted" =>
        \A i, j \in 1..Len(events) :
            (i # j /\ LevelsTie(events[i], events[j], NormalizeLevels(sortLevels)))
                => Comparator(events[i], events[j],
                              NormalizeLevels(sortLevels)) # 0

\* C8 amended: when all sort levels compare two distinct events as equal,
\* the comparator falls back to start ascending; it returns zero exactly
\* when the two starts are equal, and such events keep their input order.
TieFallsBackToStart ==
    xpc = "sorted" =>
        \A i, j \in 1..Len(events) :
            (i < j /\ LevelsTie(events[i], events[j], NormalizeLevels(sortLevels)))
                => /\ Sign(Comparator(events[i], events[j],
                                      NormalizeLevels(sortLevels)))
                         = Sign(events[i].start - events[j].start)
                   /\ events[i].start = events[j].start
                         => PosIn(sorted, events[i]) < PosIn(sorted, events[j])

TieBrokenByStart ==
    /\ xpc = "sorted"
    /\ sortLevels = <<SortLevel("client", "asc")>>
    /\ Len(events) = 2
    /\ LevelsTie(events[1], events[2], sortLevels)
    /\ events[1].start > events[2].start
    /\ sorted = <<events[2], events[1]>>

----------------------------------------------------------------------------
(* Properties of the grouping engine *)

(* The leaf arrays of a tree, concatenated in the order of the tree. *)
RECURSIVE LeafEvents(_)
RECURSIVE LeafEventsFrom(_, _)
LeafEvents(data) ==
    IF data.leaf THEN data.events ELSE LeafEventsFrom(data.entries, 1)
LeafEventsFrom(entries, i) ==
    IF i > Len(entries) THEN <<>>
    ELSE LeafEvents(entries[i].child) \o LeafEventsFrom(entries, i + 1)

\* C2: the leaves of the tree built by buildNestedGroups hold every input
\* event exactly once, and countEvents of the tree is the number of input
\* events.
GroupingConservesEvents ==
    /\ xpc \in {"grouped", "counted"} => IsPermutationOf(LeafEvents(grouped), events)
    /\ xpc = "counted" => count = Len(events)

TwoLevelTreeCounted ==
    /\ xpc = "counted"
    /\ groupLevels = <<"client", "date">>
    /\ Len(events) = 3
    /\ count = 3
    /\ Len(grouped.entries) = 2
    /\ \E i \in 1..2 : Len(grouped.entries[i].child.entries) = 2

----------------------------------------------------------------------------
(* Properties of the CSV escaping *)

(* An RFC 4180 reader: the records of a CSV text, each the sequence of its *)
(* fields.  mode is "start" at the beginning of a field, "plain" inside an *)
(* unquoted field, "quoted" inside a quoted one and "closing" right after  *)
(* a quote met inside a quoted field.                                      *)
RECURSIVE ReadCsv(_, _, _, _, _)
ReadCsv(str, i, mode, field, record) ==
    IF i > Len(str)
    THEN (IF mode = "start" /\ record = <<>> THEN <<>>
          ELSE <<record \o <<field>>>>)
    ELSE LET c == str[i] IN
         IF mode = "quoted"
         THEN (IF c = Quote THEN ReadCsv(str, i + 1, "closing", field, record)
               ELSE ReadCsv(str, i + 1, "quoted", field \o <<c>>, record))
         ELSE IF mode = "closing" /\ c = Quote
              THEN ReadCsv(str, i + 1, "quoted", field \o <<Quote>>, record)
         ELSE IF c = Comma
              THEN ReadCsv(str, i + 1, "start", <<>>, record \o <<field>>)
         ELSE IF c \in {LineFeed, "\r"}
              THEN <<record \o <<field>>>>
                       \o ReadCsv(str, i + 1, "start", <<>>, <<>>)
         ELSE IF mode = "start" /\ c = Quote
              THEN ReadCsv(str, i + 1, "quoted", field, record)
         ELSE ReadCsv(str, i + 1, "plain", field \o <<c>>, record)

ParseCsv(str) == ReadCsv(str, 1, "start", <<>>, <<>>)

NeedsQuoting(str) ==
    Includes(str, Comma) \/ Includes(str, Quote) \/ Includes(str, LineFeed)

\* C6: for a value that holds a comma, a double quote or a newline,
\* escapeCSV returns a field in double quotes that an RFC 4180 reader
\* reads back, inside its row, as exactly the value.
CsvRoundTrip ==
    (xpc = "escaped" /\ NeedsQuoting(value))
        => /\ Head(escaped) = Quote
           /\ escaped[Len(escaped)] = Quote
           /\ ParseCsv(CsvRow(escaped)) = <<<<<<"a">>, value, <<"a">>>>>>

QuotedFieldReadBack ==
    /\ xpc = "escaped"
    /\ value = <<"a", Quote, Comma, LineFeed>>
    /\ escaped = <<Quote, "a", Quote, Quote, Comma, LineFeed, Quote>>
    /\ ParseCsv(CsvRow(escaped))[1][2] = value

----------------------------------------------------------------------------
(* Properties of the report renderer. *)

Rendered == xpc \in {"text", "done"}

BodyLines == IF text.kind = "report" THEN text.body ELSE <<>>

(* The lines of the body that print event e. *)
LinesOf(e) ==
    {j \in 1..Len(BodyLines) :
        BodyLines[j].kind = "event" /\ BodyLines[j].id = e.id}

(* The key of the group heading of the given depth that line j stands under. *)
HeadingAbove(j, depth) ==
    LET above == {k \in 1..(j - 1) :
                     BodyLines[k].kind = "group" /\ BodyLines[k].depth = depth}
    IN BodyLines[CHOOSE k \in above : \A m \in above : m <= k].key

DateDepth(levels) == (CHOOSE i \in 1..Len(levels) : levels[i] = "date") - 1

GroupedByDate ==
    \E i \in 1..Len(GroupLevelsOf(options.groupBy)) :
        GroupLevelsOf(options.groupBy)[i] = "date"

SpansDays(e) == isOvernightEvent(e) /\ DayOf(e.start) # DayOf(e.end)

(* e is left in by the work-only and date-range filters and is no end marker *)
KeptByFilters(e) == PassesFilter(e, options) /\ ~ isEndOvernightMarker(e)

\* C5: in a text report grouped by date, every overnight event whose start
\* and end fall on different calendar days, and which the filters keep, is
\* printed on exactly one line, that line stands under the heading of the
\* event's start date, and no such event is printed under any other date.
OvernightOnceUnderStartDate ==
    (Rendered /\ GroupedByDate) =>
        \A i \in 1..Len(events) :
            SpansDays(events[i]) =>
                /\ Cardinality(LinesOf(events[i]))
                       = IF KeptByFilters(events[i]) THEN 1 ELSE 0
                /\ \A j \in LinesOf(events[i]) :
                       HeadingAbove(j, DateDepth(GroupLevelsOf(options.groupBy)))
                           = formatDate(events[i].start)

(* A two-night stay is printed in a report that also has a heading for a *)
(* later day of its span.                                                *)
StayPrintedBesideLaterDay ==
    /\ xpc = "text"
    /\ options.groupBy = <<"date">>
    /\ \E i \in 1..Len(events) :
          /\ SpansDays(events[i])
          /\ DayOf(events[i].end) = DayOf(events[i].start) + 2
          /\ Cardinality(LinesOf(events[i])) = 1
          /\ \E k \in 1..Len(BodyLines) :
                /\ BodyLines[k].kind = "group"
                /\ BodyLines[k].key
                       = formatDate(events[i].start + MinutesPerDay)

NothingLeft ==
    \A i \in 1..Len(events) :
        ~ (PassesFilter(events[i], options)
           /\ shouldIncludeEventOnDate(events[i], events[i].start))

\* C9 (as stated): whenever the work-only, date-range and overnight filters
\* leave no events, generateTextList and generateCSV both return the
\* sentinel "no events found" message.
EmptyResultIsSentinelInBoth ==
    (xpc = "done" /\ NothingLeft) => (text = Sentinel /\ csv = Sentinel)

\* C9: whenever the work-only, date-range and overnight filters leave no
\* events, generateTextList returns the sentinel message and generateCSV
\* returns its header row with no data rows.
EmptyResultIsSentinelOrHeader ==
    (xpc = "done" /\ NothingLeft) =>
        /\ text = Sentinel
        /\ csv = CsvExport(CsvColumns(options.includeLocation), <<>>)

(* Three events were given and the filters removed all of them. *)
AllEventsFilteredOut ==
    /\ xpc = "done"
    /\ Len(events) = 3
    /\ NothingLeft
    /\ text = Sentinel
    /\ csv.rows = <<>>

----------------------------------------------------------------------------
(* Properties of the title functions *)

TitleCalled == cpc \in {"named", "typed", "marked"}

ServiceLabels ==
    {Label(<<"Visit">>, <<>>), Label(<<"Dog Walk">>, <<>>)}
        \cup {Label(<<"Overnight">>, <<n>>) : n \in 1..3}

\* C11 (as stated): when the event title is null, undefined or not a string,
\* extractClientName, formatServiceType and isEndOvernightMarker do not
\* throw and return the empty name, a fallback label and false.
TitleFunctionsNeverThrow ==
    (TitleCalled /\ input.title.kind # "string") =>
        /\ ~ result.threw
        /\ cpc = "named" => result.value = <<>>
        /\ cpc = "typed" => result.value \in ServiceLabels
        /\ cpc = "marked" => result.value = FALSE

(* What does hold: a falsy title (null, undefined, 0, "") gets the defaults. *)
FalsyTitleGetsDefaults ==
    (TitleCalled /\ Falsy(input.title)) =>
        /\ ~ result.threw
        /\ cpc = "named" => result.value = <<>>
        /\ cpc = "typed" => result.value \in ServiceLabels
        /\ cpc = "marked" => result.value = FALSE

NumberTitleThrew ==
    /\ cpc = "typed"
    /\ input.title = Num(42)
    /\ result = TypeError

----------------------------------------------------------------------------
(* Properties of a sort level with an unknown field *)

KnownLevels(levels) ==
    SelectSeq(levels, LAMBDA level : level.sortBy \in SortFields)

AsDateLevels(levels) ==
    [i \in 1..Len(levels) |->
        IF levels[i].sortBy \in SortFields THEN levels[i]
        ELSE SortLevel("date", levels[i].sortOrder)]

\* C12 (as stated): a sort level whose sortBy is not date, time, client or
\* service is a no-op, so the result is the one the remaining levels and the
\* final chronological tie-break give.
UnknownLevelIsNoOp ==
    xpc \in {"sorted", "resorted"} =>
        sorted = ArraySort(events, LevelsCmp(KnownLevels(sortLevels)))

\* C12: a sort level whose sortBy is not date, time, client or service is
\* compared as a date level: by start timestamp, in the direction of its
\* sortOrder, so the result is the one the same levels give with "date" in
\* the place of the unknown field.
UnknownLevelSortsByStart ==
    xpc \in {"sorted", "resorted"} =>
        sorted = sortEventsMultiLevel(events, AsDateLevels(sortLevels))

(* One descending level with an unknown field put three events in reverse *)
(* chronological order.                                                   *)
UnknownDescendingReversed ==
    /\ xpc = "sorted"
    /\ sortLevels = <<SortLevel("priority", "desc")>>
    /\ Len(sorted) = 3
    /\ sorted[1].start > sorted[2].start
    /\ sorted[2].start > sorted[3].start
    /\ events[1].start < events[2].start

----------------------------------------------------------------------------
(* Properties of the CSV export *)

RowsOf(e) == {j \in 1..Len(csv.rows) : csv.rows[j].id = e.id}

KeptEvents == {i \in 1..Len(events) : KeptByFilters(events[i])}

\* C13: generateCSV returns the fixed header row followed by exactly one
\* data row for each event that passes the work-only and date-range filters
\* and is no end-of-overnight marker, and by no other row: an end marker
\* gets no row and an overnight stay of several days gets one row only.
CsvOneRowPerIncludedEvent ==
    xpc = "done" =>
        /\ csv.kind = "csv"
        /\ csv.header = CsvColumns(options.includeLocation)
        /\ Len(csv.rows) = Cardinality(KeptEvents)
        /\ \A i \in 1..Len(events) :
              Cardinality(RowsOf(events[i]))
                  = IF KeptByFilters(events[i]) THEN 1 ELSE 0

(* A two-night stay, its end marker and a visit were exported: two rows. *)
StayAndVisitExportedMarkerDropped ==
    /\ xpc = "done"
    /\ Len(events) = 3
    /\ Len(csv.rows) = 2
    /\ \E i, j, k \in 1..3 :
          /\ SpansDays(events[i]) /\ Cardinality(RowsOf(events[i])) = 1
          /\ isEndOvernightMarker(events[j]) /\ RowsOf(events[j]) = {}
          /\ ~ isOvernightEvent(events[k]) /\ Cardinality(RowsOf(events[k])) = 1

----------------------------------------------------------------------------
(* Text export against CSV export *)

LinesOfKind == {j \in 1..Len(BodyLines) : BodyLines[j].kind = "event"}

IdsOf(lines) == [j \in 1..Len(lines) |-> lines[j].id]

EventLinesOf(lines) == SelectSeq(lines, LAMBDA line : line.kind = "event")

KeptInInputOrder == SelectSeq(events, LAMBDA e : KeptByFilters(e))

\* C14 (as stated): for the same events and options generateCSV includes
\* the events generateTextList includes and orders its rows by the
\* multi-level eventSort specification, so an ungrouped text list and the
\* CSV list the events in the same order.
CsvFollowsEventSort ==
    xpc = "done" =>
        /\ {csv.rows[j].id : j \in 1..Len(csv.rows)}
               = {BodyLines[j].id : j \in LinesOfKind}
        /\ IdsOf(csv.rows)
               = IdsOf(sortEventsMultiLevel(KeptInInputOrder, options.eventSort))
        /\ GroupLevelsOf(options.groupBy) = <<>>
               => IdsOf(csv.rows) = IdsOf(EventLinesOf(BodyLines))

(* What does hold: both exports cover the same events. *)
CsvAndTextCoverSameEvents ==
    xpc = "done" =>
        {csv.rows[j].id : j \in 1..Len(csv.rows)}
            = {BodyLines[j].id : j \in LinesOfKind}

----------------------------------------------------------------------------
(* Ignored and all-day events *)

Flagged(e) == e.ignored \/ e.isAllDay

\* C15 (as stated): an event whose ignored flag or isAllDay flag is true
\* appears neither in the text generateTextList returns nor in the rows
\* generateCSV returns.
FlaggedEventsNeverExported ==
    \A i \in 1..Len(events) :
        Flagged(events[i]) =>
            /\ Rendered => LinesOf(events[i]) = {}
            /\ xpc = "done" => RowsOf(events[i]) = {}

(* What does hold: the flags change nothing, a flagged event is exported *)
(* exactly when the same event without the flags would be.               *)
FlagsAreNotRead ==
    \A i \in 1..Len(events) :
        /\ Rendered =>
              Cardinality(LinesOf(events[i]))
                  = IF KeptByFilters(events[i])
                       /\ shouldIncludeEventOnDate(events[i], events[i].start)
                    THEN 1 ELSE 0
        /\ xpc = "done" =>
              Cardinality(RowsOf(events[i]))
                  = IF KeptByFilters(events[i]) THEN 1 ELSE 0

----------------------------------------------------------------------------
(* The pre-computed isWorkEvent property *)

ShownIds == {analysed.events[j].id : j \in 1..Len(analysed.events)}

InPeriod(e) ==
    /\ ~ (e.ignored \/ e.isAllDay)
    /\ e.start >= MonthStart(Today)
    /\ e.start <= MonthEnd(Today)

\* C16 (as stated): under the work-only filter an event that carries a
\* pre-computed isWorkEvent value is kept exactly when that value is true,
\* its title is classified only when the flag is absent, and an event with
\* isWorkEvent false is never kept as a work event.
CachedFlagDecidesWorkOnly ==
    (xpc = "rendered" /\ workOnlyMode) =>
        \A i \in 1..Len(events) :
            InPeriod(events[i]) =>
                (events[i].id \in ShownIds <=> PassesWorkOnlyCached(events[i]))

(* What does hold: the work-only filter of the analytics page classifies *)
(* the title and never reads the pre-computed flag.                      *)
TitleDecidesWorkOnly ==
    (xpc = "rendered" /\ workOnlyMode) =>
        \A i \in 1..Len(events) :
            InPeriod(events[i]) =>
                (events[i].id \in ShownIds
                    <=> isWorkEvent(events[i].title).value)

FlaggedNotWorkShownAsWork ==
    /\ xpc = "rendered"
    /\ workOnlyMode
    /\ \E i \in 1..Len(events) :
          /\ Prop(events[i], "isWorkEvent") = Bool(FALSE)
          /\ events[i].id \in ShownIds

----------------------------------------------------------------------------
(* Order of date, week and month group keys *)

(* The first day a key of the given type stands for. *)
DayDenoted(key, groupType) ==
    LET days == {d \in 20400..20500 :
                    getGroupKey(Event(1, Str(<<>>), At(d, 0, 0), At(d, 0, 0),
                                      "dropin"), groupType) = key}
    IN CHOOSE d \in days : \A e \in days : d <= e

Chronological(ks, groupType, sortOrder) ==
    \A i \in 1..(Len(ks) - 1) :
        IF sortOrder = "desc"
        THEN DayDenoted(ks[i], groupType) > DayDenoted(ks[i + 1], groupType)
        ELSE DayDenoted(ks[i], groupType) < DayDenoted(ks[i + 1], groupType)

SameKeys == {keysOut[i] : i \in 1..Len(keysOut)}
                = {groupKeys[i] : i \in 1..Len(groupKeys)}
            /\ Len(keysOut) = Len(groupKeys)

\* C17 (as stated): for every groupSort configuration sortGroupKeys returns
\* date, week and month keys in the chronological order of the dates they
\* denote, reversed when the order is descending.
KeysAlwaysChronological ==
    xpc = "keysSorted" =>
        /\ SameKeys
        /\ Chronological(keysOut, keySort.groupType, keySort.sortOrder)

\* C17: for every groupSort configuration whose sortBy is not "alpha",
\* sortGroupKeys returns date, week and month keys in the chronological
\* order of the dates they denote, reversed when the order is descending;
\* with sortBy "alpha" it returns them in the order of their labels.
KeysChronologicalUnlessAlpha ==
    xpc = "keysSorted" =>
        /\ SameKeys
        /\ keySort.sortBy # "alpha"
              => Chronological(keysOut, keySort.groupType, keySort.sortOrder)
        /\ keySort.sortBy = "alpha"
              => \A i \in 1..(Len(keysOut) - 1) :
                    IF keySort.sortOrder = "desc"
                    THEN CompareSeq(keysOut[i].nums, keysOut[i + 1].nums) > 0
                    ELSE CompareSeq(keysOut[i].nums, keysOut[i + 1].nums) < 0

(* Month keys of two years came back in date order, against label order. *)
MonthsOfTwoYearsInDateOrder ==
    /\ xpc = "keysSorted"
    /\ keySort = [groupType |-> "month", sortBy |-> "date", sortOrder |-> "asc"]
    /\ groupKeys = <<Label(<<>>, <<1, 2026>>), Label(<<>>, <<12, 2025>>),
                     Label(<<>>, <<11, 2025>>)>>
    /\ keysOut = <<Label(<<>>, <<11, 2025>>), Label(<<>>, <<12, 2025>>),
                   Label(<<>>, <<1, 2026>>)>>

----------------------------------------------------------------------------
(* Frame of an export call *)

\* C18 (as stated): sortEventsMultiLevel and generateTextList leave the
\* caller's event array, its events and the sort-level list handed in as
\* they were, for every event list and every sort-level list, empty or not.
InputsLeftUntouched ==
    [][/\ events' = events
       /\ sortLevels' = sortLevels
       /\ options' = options]_vars

(* What does hold: the events are never touched, and a sort-level list *)
(* that is not empty is left as it was.                                *)
EventsLeftUntouched ==
    [][/\ events' = events
       /\ sortLevels # <<>> => sortLevels' = sortLevels
       /\ ("eventSort" \in DOMAIN options /\ options.eventSort # <<>>)
             => options' = options]_vars

----------------------------------------------------------------------------
(* The searchTerm option *)

TitleContains(e, term) == HasPhrase(TitleToks(e), term)

MatchesSearch(e) ==
    /\ TitleContains(e, options.searchTerm)
    /\ options.workEventsOnly => isWorkEvent(Obj(e.title)).value

\* C19 (as stated): when the options carry a searchTerm, the text and the
\* CSV list exactly the events whose title contains the term (and, with
\* workEventsOnly, that classify as work), and the count is their number.
OnlySearchMatchesExported ==
    \A i \in 1..Len(events) :
        /\ Rendered =>
              (LinesOf(events[i]) # {} <=> MatchesSearch(events[i]))
        /\ xpc = "done" =>
              (RowsOf(events[i]) # {} <=> MatchesSearch(events[i]))

(* What does hold: the searchTerm is not read, the exports list the *)
(* events the other filters keep.                                   *)
SearchTermIsNotRead ==
    \A i \in 1..Len(events) :
        /\ Rendered => (LinesOf(events[i]) # {} <=> KeptByFilters(events[i]))
        /\ xpc = "done" => (RowsOf(events[i]) # {} <=> KeptByFilters(events[i]))
----------------------------------------------------------------------------
(* Events whose dates do not parse *)

BadStart(e) == IsNaN(e.start)
BadDate(e) == IsNaN(e.start) \/ IsNaN(e.end)

(* e is left in by the work-only filter and is no end marker *)
KeptByWorkFilter(e) ==
    /\ options.workEventsOnly => isWorkEvent(Obj(e.title)).value
    /\ ~ isEndOvernightMarker(e)

BothReturned ==
    xpc = "done" /\ text.kind \in {"report", "sentinel"} /\ csv.kind = "csv"

\* C20: generateTextList and generateCSV return whatever dates their events
\* carry.  Every event with parseable dates that the filters keep is printed
\* on exactly one line and in exactly one row; an event whose start does not
\* parse is never cut by the date range: unless it is an overnight stay
\* (then it is left out) it is printed once in each output with "NaN" in its
\* date; and a row whose start or end does not parse carries the duration
\* "NaNm".
BadDatesNeverAbortTheBatch ==
    (xpc = "done") =>
        /\ BothReturned
        /\ \A i \in 1..Len(events) :
              LET e == events[i] IN
              /\ (~ BadDate(e) /\ KeptByFilters(e)) =>
                    /\ Cardinality(LinesOf(e)) = 1
                    /\ Cardinality(RowsOf(e)) = 1
              /\ (BadStart(e) /\ KeptByWorkFilter(e) /\ ~ isOvernightEvent(e)) =>
                    /\ Cardinality(LinesOf(e)) = 1
                    /\ Cardinality(RowsOf(e)) = 1
                    /\ \A j \in RowsOf(e) : csv.rows[j].date = Label(<<>>, <<NaN, NaN, NaN>>)
              /\ (BadStart(e) /\ isOvernightEvent(e)) =>
                    LinesOf(e) = {} /\ RowsOf(e) = {}
              /\ \A j \in RowsOf(e) :
                    BadDate(e) => csv.rows[j].duration = Label(<<"m">>, <<NaN>>)

(* Both outputs were produced from a list that holds an event with an *)
(* unparseable start, one with an unparseable end, and a sound event   *)
(* that is reported in both.                                           *)
SoundEventReportedBesideBadOnes ==
    /\ BothReturned
    /\ \E i, j, k \in 1..Len(events) :
          /\ BadStart(events[i]) /\ RowsOf(events[i]) # {}
          /\ ~ BadStart(events[j]) /\ IsNaN(events[j].end)
          /\ ~ BadDate(events[k]) /\ KeptByFilters(events[k])
          /\ Cardinality(LinesOf(events[k])) = 1
          /\ Cardinality(RowsOf(events[k])) = 1
          /\ options.startDate # Null
----------------------------------------------------------------------------
(* Client names *)

HasDash(toks) == \E i \in 1..Len(toks) : toks[i] \in NameDashes

IsPrefixOf(a, b) == Len(a) <= Len(b) /\ SubSeq(b, 1, Len(a)) = a

NamedFromText == cpc = "named" /\ input.title.kind = "string" /\ input.title.toks # <<>>

ServiceIndicators == DurationTokens \cup MeetGreetMarkers \cup HouseSitMarkers

\* C21 (as stated): for every non-empty title the name extractClientName
\* returns is text from before the first dash of the title with the
\* parentheticals removed, so it holds no dash, and it is the whole cleaned
\* title only when that holds no dash.
NameIsTextBeforeFirstDash ==
    NamedFromText =>
        LET clean == cleanTitle(input.title.toks) IN
        /\ ~ result.threw
        /\ ~ HasDash(result.value)
        /\ IsPrefixOf(result.value, BeforeDash(clean))
        /\ HasDash(clean) => result.value # clean

\* C22 (as stated): the name extractClientName returns never ends with a
\* duration token or with one of the markers MG, M&G, HS, Housesit.
NameNeverEndsWithIndicator ==
    NamedFromText =>
        /\ ~ result.threw
        /\ \/ result.value = <<>>
           \/ result.value[Len(result.value)] \notin ServiceIndicators
----------------------------------------------------------------------------
(* Default templates *)

HasTemplate(id) == \E i \in 1..Len(templates) : templates[i].id = id

DefaultIds == 1..Len(DefaultNames)

\* C23 (as stated): after any sequence of createTemplate, updateTemplate,
\* duplicateTemplate, deleteTemplate and importTemplates calls every
\* built-in default template is still in the template list.
DefaultTemplatesAlwaysPresent ==
    \A id \in DefaultIds : HasTemplate(id)

(* A template that is flagged as default is never removed by a call. *)
FlaggedDefaultsStay ==
    [][\A i \in 1..Len(templates) :
          Flag(templates[i], "isDefault") =>
              \E j \in 1..Len(templates') : templates'[j].id = templates[i].id]_vars
----------------------------------------------------------------------------
(* Group levels of the export dialog *)

\* C24 (as stated): after any sequence of addGroupLevel, removeGroupLevel and
\* reorderGroupLevel calls each call has completed without an error and the
\* group levels are numbered 1..n in display order, with n from 1 to 4.
GroupLevelsNumberedInOrder ==
    /\ dlgOutcome # "threw"
    /\ Len(groupDivs) \in 1..MaxDialogLevels
    /\ \A i \in 1..Len(groupDivs) :
          groupDivs[i].level = i /\ groupDivs[i].label = i

(* The number of levels stays between 1 and 4. *)
LevelCountInRange == Len(groupDivs) \in 1..MaxDialogLevels
----------------------------------------------------------------------------
(* Automatic authentication *)

\* C25 (as stated): when attemptAutoAuthentication has failed at any step
\* (API initialisation, authentication, calendar listing or event loading)
\* the app is left unauthenticated: state.isAuthenticated is false and
\* state.useMockData is true.
FailedAutoAuthLeavesUnauthenticated ==
    (autoPc = "caught") => (~ isAuthenticated /\ useMockData)

(* Calendar fetches and logout *)

(* A pending loadCalendarEvents call ends in this step by storing what the *)
(* calendar returned in state.events and in the events cache.              *)
WritesFetched ==
    \E fetch \in fetches :
        /\ fetch \notin fetches'
        /\ appEvents' = fetch
        /\ eventsCache' = fetch

\* C29 (as stated): once handleLogout has completed, no calendar fetch that
\* was started before the logout writes state.events or the events cache:
\* no fetched events are written while state.isAuthenticated is false.
NoFetchedEventsWrittenAfterLogout ==
    [][(logoutPc = "done" /\ ~ isAuthenticated) => ~ WritesFetched]_vars

(* Multi-event wizard *)

\* C26 (as stated): after any sequence of showMultiEventModal,
\* multiEventNextStep and multiEventPrevStep calls, multiEventCurrentStep is
\* 1, 2 or 3.
WizardStepInRange == multiEventCurrentStep \in 1..3

Occurrences(seq, x) == Cardinality({i \in 1..Len(seq) : seq[i] = x})

\* C27 (as stated): however invocations of createMultiEvents interleave, no
\* invocation raises an error and no pending event is added to state.events
\* more than once.
PendingEventsCreatedOnce ==
    /\ \A i \in 1..MaxInvocations : creators[i] # "threw"
    /\ \A id \in 1..MaxEventIds : Occurrences(storedEvents, id) <= 1

\* C28 (as stated): a single click on a preview event's delete button
\* removes at most one event from pendingMultiEvents, however many times the
\* timeline was rendered before the click.
ClickRemovesAtMostOne == removedByClick <= 1

(* Export preview *)

====
